---- MODULE Spec2Model ----
(***************************************************************************)
(* A model of the PDF layout engine of @vcmap/print: PDFCreator (setup and *)
(* create), the static style tables, and the legend paginator              *)
(* (addLayerLegend, renderStyleLegend, sizeAndPrintImage).                 *)
(*                                                                         *)
(* All lengths are inches, kept as exact rationals <<n, d>> (d > 0, in     *)
(* lowest terms), so that 0.4, 8.27, 23/72 and image ratios are computed   *)
(* with the arithmetic the code uses, without rounding to a grid.          *)
(***************************************************************************)
EXTENDS Integers, Sequences, FiniteSets, TLC

VARIABLES pageStyles, pdfCreator, pdfDoc, call

vars == <<pageStyles, pdfCreator, pdfDoc, call>>

(***************************************************************************)
(* Exact rational arithmetic (the code's number type).                     *)
(***************************************************************************)
Abs(x) == IF x < 0 THEN -x ELSE x

RECURSIVE GCD(_, _)
GCD(a, b) == IF b = 0 THEN a ELSE GCD(b, a % b)

R(n, d) ==
  LET g == GCD(Abs(n), Abs(d))
      s == IF d < 0 THEN -1 ELSE 1
  IN  <<(s * n) \div g, (s * d) \div g>>

Zero == <<0, 1>>

Num(n) == <<n, 1>>

RAdd(a, b) ==
  LET g == GCD(a[2], b[2])
  IN  R(a[1] * (b[2] \div g) + b[1] * (a[2] \div g), (a[2] \div g) * b[2])

RNeg(a) == <<-a[1], a[2]>>

RSub(a, b) == RAdd(a, RNeg(b))

RMul(a, b) ==
  LET g1 == GCD(Abs(a[1]), b[2])
      g2 == GCD(Abs(b[1]), a[2])
  IN  R((a[1] \div g1) * (b[1] \div g2), (a[2] \div g2) * (b[2] \div g1))

\* a / b for b # 0 (division by zero is handled where the code can divide by 0)
RDiv(a, b) == RMul(a, R(b[2], b[1]))

RLt(a, b) ==
  LET g == GCD(a[2], b[2])
  IN  a[1] * (b[2] \div g) < b[1] * (a[2] \div g)

RLe(a, b) == ~RLt(b, a)

RHalf(a) == RMul(a, <<1, 2>>)

\* Math.ceil(a / b) and Math.floor(a / b) for naturals a, b > 0
CeilDiv(a, b) == (a + b - 1) \div b

FloorDiv(a, b) == a \div b

(***************************************************************************)
(* Optional values: <<>> is undefined, <<v>> is the value v.               *)
(***************************************************************************)
Undefined == <<>>

Some(v) == <<v>>

Defined(o) == o # <<>>

Val(o) == o[1]

(***************************************************************************)
(* styles.js: the static style tables.                                     *)
(***************************************************************************)
FontWeights == [BOLD |-> <<700, 1>>, REGULAR |-> <<400, 1>>]

defaultStyle ==
  [k \in {"pageMargins", "elementMargin", "logo.scale", "title.fontWeight",
          "title.fontSize", "title.widthPortion.portrait",
          "title.widthPortion.landscape", "title.maxLineCount.portrait",
          "title.maxLineCount.landscape", "description.fontWeight",
          "description.fontSize", "description.lineHeight",
          "description.maxLineCount.portrait",
          "description.maxLineCount.landscape", "info.fontWeight",
          "info.fontSize", "info.widthPortion.portrait",
          "info.widthPortion.landscape"} |->
     CASE k = "pageMargins" -> <<R(2, 5), R(2, 5), R(2, 5), R(2, 5)>>
       [] k = "elementMargin" -> R(2, 5)
       [] k = "logo.scale" -> R(6, 5)
       [] k = "title.fontWeight" -> FontWeights.BOLD
       [] k = "title.fontSize" -> Num(20)
       [] k = "title.widthPortion.portrait" -> R(1, 2)
       [] k = "title.widthPortion.landscape" -> R(3, 4)
       [] k = "title.maxLineCount.portrait" -> Num(2)
       [] k = "title.maxLineCount.landscape" -> Num(1)
       [] k = "description.fontWeight" -> FontWeights.REGULAR
       [] k = "description.fontSize" -> Num(11)
       [] k = "description.lineHeight" -> R(5, 4)
       [] k = "description.maxLineCount.portrait" -> Num(15)
       [] k = "description.maxLineCount.landscape" -> Num(8)
       [] k = "info.fontWeight" -> FontWeights.REGULAR
       [] k = "info.fontSize" -> Num(10)
       [] k = "info.widthPortion.portrait" -> R(1, 2)
       [] k = "info.widthPortion.landscape" -> R(1, 4)]

A5Style ==
  [k \in {"elementMargin", "description.fontSize", "description.lineHeight",
          "info.fontSize", "info.widthPortion.landscape", "title.fontSize"} |->
     CASE k = "elementMargin" -> R(3, 10)
       [] k = "description.fontSize" -> Num(8)
       [] k = "description.lineHeight" -> R(23, 20)
       [] k = "info.fontSize" -> Num(8)
       [] k = "info.widthPortion.landscape" -> R(3, 10)
       [] k = "title.fontSize" -> Num(14)]

\* The module-level object `pageStyles` as exported by styles.js.
initialPageStyles == [default |-> defaultStyle, A5 |-> A5Style]

\* pageStyles[format]: the override table of a format, undefined when none.
StyleOf(styles, format) ==
  IF format = "A5" THEN Some(styles.A5) ELSE Undefined

\* Object.assign(target, source): own keys of source copied onto target.
ObjectAssign(target, source) ==
  IF ~Defined(source) THEN target
  ELSE [k \in DOMAIN target \cup DOMAIN Val(source) |->
          IF k \in DOMAIN Val(source) THEN Val(source)[k] ELSE target[k]]

(***************************************************************************)
(* standardPageSizes.js: [short edge, long edge] of a format in inches.    *)
(***************************************************************************)
pageSizes(format) ==
  CASE format = "A2" -> <<R(1654, 100), R(2339, 100)>>
    [] format = "A3" -> <<R(1169, 100), R(1654, 100)>>
    [] format = "A4" -> <<R(827, 100), R(1169, 100)>>
    [] format = "A5" -> <<R(583, 100), R(827, 100)>>

\* Object.keys(standardPageSizes)
Formats == {"A2", "A3", "A4", "A5"}

\* defaultOptions.js
defaultOptions == [formatDefault |-> "A4", orientationDefault |-> "portrait"]

\* Object.keys(contactKeysPattern).length
contactKeysCount == 8

\* PDFCreator.JSPDF_PPI
JSPDF_PPI == 72

(***************************************************************************)
(* PDFCreator: the fields of a fresh instance.                             *)
(***************************************************************************)
\* this.formatting: in every state the very object pageStyles.default (the
\* field initialiser and Object.assign(pageStyles.default, ...) both return
\* that object), so it is read through the table, not copied.
formatting(styles) == styles.default

PortraitSize(format) ==
  [width |-> pageSizes(format)[1], height |-> pageSizes(format)[2]]

LandscapeSize(format) ==
  [width |-> pageSizes(format)[2], height |-> pageSizes(format)[1]]

SizeOf(format, orientation) ==
  IF orientation = "portrait" THEN PortraitSize(format)
  ELSE LandscapeSize(format)

calcMaxLineWidth(f, pdfSize) ==
  RSub(RSub(pdfSize.width, f["pageMargins"][2]), f["pageMargins"][4])

newPDFCreator(styles) ==
  [initialized |-> FALSE,
   pdfSize |-> SizeOf(defaultOptions.formatDefault,
                      defaultOptions.orientationDefault),
   maxLineWidth |->
     calcMaxLineWidth(formatting(styles),
                      SizeOf(defaultOptions.formatDefault,
                             defaultOptions.orientationDefault)),
   font |-> "helvetica",
   orientation |-> defaultOptions.orientationDefault,
   title |-> Undefined, titlePlacement |-> Undefined,
   logo |-> Undefined, logoPlacement |-> Undefined,
   contact |-> Undefined, contactPlacement |-> Undefined,
   mapInfo |-> Undefined, mapInfoPlacement |-> Undefined,
   description |-> Undefined, descriptionPlacement |-> Undefined,
   imgPlacement |-> Undefined,
   copyright |-> Undefined, copyrightPlacement |-> Undefined,
   legend |-> Undefined]

(***************************************************************************)
(* Text style and the geometry helpers.                                    *)
(***************************************************************************)
\* formatting[key] || dflt
Lookup(f, key, dflt) == IF key \in DOMAIN f THEN f[key] ELSE dflt

\* _setTextStyle: the font size (pt) and line height factor made active.
setTextStyle(f, textElement) ==
  [fontSize |-> Lookup(f, textElement \o ".fontSize", Num(11)),
   lineHeight |-> Lookup(f, textElement \o ".lineHeight", R(23, 20))]

\* pdfDoc.setFontSize(pt) on the active style
setFontSize(style, pt) == [style EXCEPT !.fontSize = Num(pt)]

\* _calcTotalLineHeight under the active style; jsPDF's getLineHeight() is
\* fontSize * lineHeightFactor (pt).
calcTotalLineHeight(style, numberLines) ==
  RMul(RDiv(RMul(style.fontSize, style.lineHeight), Num(JSPDF_PPI)),
       numberLines)

calcElementWidth(f, maxLineWidth, portion) ==
  RSub(RMul(maxLineWidth, portion), RHalf(f["elementMargin"]))

Placement(x, y, width, height) ==
  [coords |-> [x |-> x, y |-> y], size |-> [width |-> width, height |-> height]]

\* a title placed at the top margin with the height of its own lines
calcTitlePlacementByLines(f, style, title, width, maxLineCount) ==
  Placement(f["pageMargins"][4], f["pageMargins"][1], width,
            calcTotalLineHeight(style, Num(Len(title))))

calcTitlePlacement(f, style, title, width, maxLineCount) ==
  Placement(f["pageMargins"][4],
            RSub(RAdd(f["pageMargins"][1],
                      RHalf(calcTotalLineHeight(style, maxLineCount))),
                 RHalf(calcTotalLineHeight(style, Num(Len(title))))),
            width,
            RAdd(RHalf(calcTotalLineHeight(style, maxLineCount)),
                 RHalf(calcTotalLineHeight(style, Num(Len(title))))))

\* logo: <<width, height>> of the image in pixels
calcLogoPlacement(f, style, c, logo) ==
  LET aspectRatio == R(logo[1], logo[2])
      printHeight == calcTotalLineHeight(style, f["logo.scale"])
  IN  Placement(
        RSub(RSub(c.pdfSize.width, f["pageMargins"][4]),
             RMul(printHeight, aspectRatio)),
        RSub(RAdd(f["pageMargins"][1],
                  RHalf(calcTotalLineHeight(
                          style,
                          f["title.maxLineCount." \o c.orientation]))),
             RHalf(printHeight)),
        RMul(printHeight, aspectRatio),
        printHeight)

calcContactPlacement(f, style, c) ==
  Placement(
    f["pageMargins"][4],
    RSub(RSub(c.pdfSize.height, f["pageMargins"][3]),
         calcTotalLineHeight(style, Num(contactKeysCount + 1))),
    calcElementWidth(f, c.maxLineWidth,
                     f["info.widthPortion." \o c.orientation]),
    calcTotalLineHeight(style, Num(contactKeysCount + 1)))

\* a map-info block that ignores the contact block beside it
calcMapInfoPlacementAtMargin(f, style, c) ==
  Placement(
    f["pageMargins"][4],
    RSub(RSub(c.pdfSize.height, f["pageMargins"][3]),
         calcTotalLineHeight(style, Num(contactKeysCount + 1))),
    calcElementWidth(f, c.maxLineWidth,
                     f["info.widthPortion." \o c.orientation]),
    calcTotalLineHeight(style, Num(contactKeysCount + 1)))

calcMapInfoPlacement(f, style, c) ==
  LET xMargin == IF c.orientation = "portrait" THEN f["elementMargin"]
                 ELSE RHalf(f["elementMargin"])
  IN  Placement(
        IF Defined(c.contact)
          THEN RAdd(RAdd(Val(c.contactPlacement).coords.x,
                         Val(c.contactPlacement).size.width), xMargin)
          ELSE f["pageMargins"][4],
        RSub(RSub(c.pdfSize.height, f["pageMargins"][3]),
             calcTotalLineHeight(style, Num(contactKeysCount + 1))),
        calcElementWidth(f, c.maxLineWidth,
                         f["info.widthPortion." \o c.orientation]),
        calcTotalLineHeight(style, Num(contactKeysCount + 1)))

calcDescriptionPlacement(f, style, c, description, width) ==
  LET portrait == c.orientation = "portrait"
      lowerBorder ==
        IF portrait
          THEN IF Defined(c.contactPlacement)
                 THEN Val(c.contactPlacement).coords.y
               ELSE IF Defined(c.mapInfoPlacement)
                 THEN Val(c.mapInfoPlacement).coords.y
               ELSE RSub(c.pdfSize.height, f["pageMargins"][3])
          ELSE RSub(c.pdfSize.height, f["pageMargins"][3])
      height ==
        IF portrait
          THEN RAdd(calcTotalLineHeight(style, Num(Len(description))),
                    f["elementMargin"])
          ELSE IF Defined(c.contactPlacement)
                 THEN Val(c.contactPlacement).size.height
               ELSE IF Defined(c.mapInfoPlacement)
                 THEN Val(c.mapInfoPlacement).size.height
               ELSE calcTotalLineHeight(style, Num(Len(description)))
      x == IF portrait THEN f["pageMargins"][4]
           ELSE RSub(RSub(c.pdfSize.width, f["pageMargins"][2]), width)
  IN  Placement(x, RSub(lowerBorder, height), width, height)

\* The upper and lower border _calcImagePlacement derives from the state.
imageUpperBorder(f, c) ==
  IF Defined(c.title)
    THEN RAdd(RAdd(Val(c.titlePlacement).coords.y,
                   Val(c.titlePlacement).size.height), f["elementMargin"])
  ELSE IF Defined(c.logo)
    THEN RAdd(RAdd(Val(c.logoPlacement).coords.y,
                   Val(c.logoPlacement).size.height), f["elementMargin"])
  ELSE f["pageMargins"][1]

imageLowerBorder(f, c) ==
  IF Defined(c.description)
    THEN RSub(Val(c.descriptionPlacement).coords.y, f["elementMargin"])
  ELSE IF Defined(c.contact)
    THEN RSub(Val(c.contactPlacement).coords.y, f["elementMargin"])
  ELSE IF Defined(c.mapInfo)
    THEN RSub(Val(c.mapInfoPlacement).coords.y, f["elementMargin"])
  ELSE f["pageMargins"][3]

\* an image fit whose comparison of the two ratios is the wrong way round
fitImageFlipped(aspectRatio, pageWidth, marginLeft, width, height) ==
  IF height # Zero /\ RLt(RDiv(width, height), aspectRatio)
    THEN [x |-> RSub(RHalf(pageWidth), RHalf(RMul(height, aspectRatio))),
          width |-> RMul(height, aspectRatio), height |-> height]
    ELSE [x |-> marginLeft, width |-> width,
          height |-> RDiv(width, aspectRatio)]

\* The fit of an image of ratio aspectRatio into the band: x, width, height.
\* width / height with height = 0 is +Infinity in the code, which every
\* aspect ratio is below.
fitImage(aspectRatio, pageWidth, marginLeft, width, height) ==
  IF height = Zero \/ RLt(aspectRatio, RDiv(width, height))
    THEN [x |-> RSub(RHalf(pageWidth), RHalf(RMul(height, aspectRatio))),
          width |-> RMul(height, aspectRatio), height |-> height]
    ELSE [x |-> marginLeft, width |-> width,
          height |-> RDiv(width, aspectRatio)]

calcImagePlacement(f, c, aspectRatio) ==
  LET upperBorder == imageUpperBorder(f, c)
      lowerBorder == imageLowerBorder(f, c)
      fit == fitImage(aspectRatio, c.pdfSize.width, f["pageMargins"][4],
                      c.maxLineWidth, RSub(lowerBorder, upperBorder))
  IN  Placement(fit.x, upperBorder, fit.width, fit.height)

\* copyright: [lines |-> n, portion |-> p]: jsPDF wraps the text to the image
\* width into n lines whose widest line measures p * image width (p <= 1).
calcCopyrightPlacement(f, c, copyright) ==
  LET style == setFontSize(setTextStyle(f, "info"), 6)
      img == Val(c.imgPlacement)
      height == calcTotalLineHeight(style, Num(copyright.lines))
      width == RMul(img.size.width, copyright.portion)
  IN  Placement(RSub(RAdd(img.coords.x, img.size.width), width),
                RSub(RAdd(img.coords.y, img.size.height), height),
                width, height)

(***************************************************************************)
(* PDFCreator.setup.  Options o: orientation, format, title, description   *)
(* (undefined, or the lines jsPDF's splitTextToSize wraps the text into),  *)
(* logo (undefined or <<width, height>> px), imgRatio, contact, mapInfo    *)
(* (undefined or present), copyright, legend, fonts ("none", "ok" or       *)
(* "fail": whether font files are given and whether fetching them works).  *)
(***************************************************************************)
\* a cut that keeps the last maxLineCount lines instead of the first
sliceTail(lines, maxLineCount) ==
  IF Len(lines) < maxLineCount THEN lines
  ELSE SubSeq(lines, Len(lines) - maxLineCount + 1, Len(lines))

\* Array.prototype.slice(0, maxLineCount)
slice(lines, maxLineCount) ==
  SubSeq(lines, 1, IF Len(lines) < maxLineCount THEN Len(lines)
                   ELSE maxLineCount)

\* The part of setup before fonts are awaited: style, page size, document.
setupFormat(styles, o) ==
  IF o.format # defaultOptions.formatDefault
    THEN [styles EXCEPT
            !.default = ObjectAssign(styles.default, StyleOf(styles, o.format))]
    ELSE styles

\* a setup that raises the initialized flag together with the page size
setupPageInitialized(f, c, o) ==
  [c EXCEPT
     !.initialized = TRUE,
     !.pdfSize = SizeOf(o.format, o.orientation),
     !.maxLineWidth = calcMaxLineWidth(f, SizeOf(o.format, o.orientation))]

setupPage(f, c, o) ==
  IF o.format # defaultOptions.formatDefault
     \/ o.orientation # defaultOptions.orientationDefault
    THEN [c EXCEPT
            !.pdfSize = SizeOf(o.format, o.orientation),
            !.maxLineWidth = calcMaxLineWidth(f, SizeOf(o.format, o.orientation))]
    ELSE c

setupOrientation(c, o) ==
  IF o.orientation # defaultOptions.orientationDefault
    THEN [c EXCEPT !.orientation = o.orientation]
    ELSE c

setupTitle(f, c, o) ==
  IF Defined(o.title)
    THEN LET width ==
               calcElementWidth(f, c.maxLineWidth,
                                f["title.widthPortion." \o o.orientation])
             maxLineCount == f["title.maxLineCount." \o c.orientation]
             style == setTextStyle(f, "title")
             title == slice(Val(o.title), maxLineCount[1])
         IN  [c EXCEPT
                !.title = Some(title),
                !.titlePlacement =
                  Some(calcTitlePlacement(f, style, title, width, maxLineCount))]
    ELSE c

setupLogo(f, c, o) ==
  IF Defined(o.logo)
    THEN [c EXCEPT
            !.logo = o.logo,
            !.logoPlacement =
              Some(calcLogoPlacement(f, setTextStyle(f, "title"), c, Val(o.logo)))]
    ELSE c

setupContact(f, c, o) ==
  IF Defined(o.contact)
    THEN [c EXCEPT
            !.contact = o.contact,
            !.contactPlacement =
              Some(calcContactPlacement(f, setTextStyle(f, "info"), c))]
    ELSE c

setupMapInfo(f, c, o) ==
  IF Defined(o.mapInfo)
    THEN [c EXCEPT
            !.mapInfo = o.mapInfo,
            !.mapInfoPlacement =
              Some(calcMapInfoPlacement(f, setTextStyle(f, "info"), c))]
    ELSE c

\* width of the description text field
\* a description as wide as the printable width in both orientations
descriptionWidthFull(f, c, o) ==
  c.maxLineWidth

descriptionWidth(f, c, o) ==
  IF o.orientation = "landscape"
    THEN IF Defined(c.contact) /\ Defined(c.mapInfo)
           THEN RMul(c.maxLineWidth,
                     RSub(Num(1), RMul(Num(2), f["info.widthPortion.landscape"])))
         ELSE IF Defined(c.contact) # Defined(c.mapInfo)
           THEN RMul(c.maxLineWidth,
                     RSub(Num(1), f["info.widthPortion.landscape"]))
         ELSE c.maxLineWidth
    ELSE c.maxLineWidth

setupDescription(f, c, o) ==
  IF Defined(o.description)
    THEN LET width == descriptionWidth(f, c, o)
             maxLineCount == f["description.maxLineCount." \o c.orientation]
             style == setTextStyle(f, "description")
             description == slice(Val(o.description), maxLineCount[1])
         IN  [c EXCEPT
                !.description = Some(description),
                !.descriptionPlacement =
                  Some(calcDescriptionPlacement(f, style, c, description, width))]
    ELSE c

setupImage(f, c, o) ==
  [c EXCEPT !.imgPlacement = Some(calcImagePlacement(f, c, o.imgRatio))]

setupCopyright(f, c, o) ==
  IF Defined(o.copyright)
    THEN [c EXCEPT
            !.copyright = o.copyright,
            !.copyrightPlacement =
              Some(calcCopyrightPlacement(f, c, Val(o.copyright)))]
    ELSE c

setupLegend(c, o) ==
  IF Defined(o.legend) THEN [c EXCEPT !.legend = o.legend] ELSE c

setupInitialized(c) == [c EXCEPT !.initialized = TRUE]

\* The part of setup after the fonts: every placement, in the code's order.
setupPlacements(f, c, o) ==
  LET c1 == setupOrientation(c, o)
      c2 == setupTitle(f, c1, o)
      c3 == setupLogo(f, c2, o)
      c4 == setupContact(f, c3, o)
      c5 == setupMapInfo(f, c4, o)
      c6 == setupDescription(f, c5, o)
      c7 == setupImage(f, c6, o)
      c8 == setupCopyright(f, c7, o)
      c9 == setupLegend(c8, o)
  IN  setupInitialized(c9)

(***************************************************************************)
(* The jsPDF document of an instance: number of pages, current page, and   *)
(* the drawing operations issued so far, in order.                         *)
(***************************************************************************)
newJsPDF == [pages |-> 1, current |-> 1, ops |-> <<>>]

\* One drawing operation: what is drawn, on which page, its rectangle, and
\* for legend content the <<group, item, row>> it belongs to.
Op(doc, what, x, y, width, height, ref) ==
  [op |-> what, page |-> doc.current, x |-> x, y |-> y,
   width |-> width, height |-> height, ref |-> ref]

draw(doc, what, pl, ref) ==
  [doc EXCEPT !.ops = Append(@, Op(doc, what, pl.coords.x, pl.coords.y,
                                   pl.size.width, pl.size.height, ref))]

addPage(doc) == [doc EXCEPT !.pages = @ + 1, !.current = doc.pages + 1]

NoRef == <<0, 0, 0>>

(***************************************************************************)
(* PDFCreator.create: the first page, drawn synchronously.                 *)
(***************************************************************************)
drawTitle(c, doc) ==
  IF Defined(c.title) THEN draw(doc, "title", Val(c.titlePlacement), NoRef)
  ELSE doc

drawImage(c, doc) == draw(doc, "image", Val(c.imgPlacement), NoRef)

drawCopyright(c, doc) ==
  IF Defined(c.copyright)
    THEN draw(draw(doc, "copyrightRect", Val(c.copyrightPlacement), NoRef),
              "copyrightText", Val(c.copyrightPlacement), NoRef)
    ELSE doc

drawLogo(c, doc) ==
  IF Defined(c.logo) THEN draw(doc, "logo", Val(c.logoPlacement), NoRef)
  ELSE doc

\* body text one line below the header, then the header in bold
drawContact(f, c, doc) ==
  IF Defined(c.contact)
    THEN LET pl == Val(c.contactPlacement)
             lh == calcTotalLineHeight(setTextStyle(f, "info"), Num(1))
             body == Placement(pl.coords.x, RAdd(pl.coords.y, lh),
                               pl.size.width, RSub(pl.size.height, lh))
         IN  draw(draw(doc, "contactText", body, NoRef), "contactHeader", pl, NoRef)
    ELSE doc

drawMapInfo(f, c, doc) ==
  IF Defined(c.mapInfo)
    THEN LET pl == Val(c.mapInfoPlacement)
             lh == calcTotalLineHeight(setTextStyle(f, "info"), Num(1))
             body == Placement(pl.coords.x, RAdd(pl.coords.y, lh),
                               pl.size.width, RSub(pl.size.height, lh))
         IN  draw(draw(doc, "mapInfoText", body, NoRef), "mapInfoHeader", pl, NoRef)
    ELSE doc

\* the description text: its lines drawn from y downwards
\* a description drawn at its own placement in both orientations
drawDescriptionAtPlacement(f, c, doc) ==
  IF Defined(c.description)
    THEN LET pl == Val(c.descriptionPlacement)
             textHeight ==
               calcTotalLineHeight(setTextStyle(f, "description"),
                                   Num(Len(Val(c.description))))
         IN  draw(doc, "description",
                  Placement(pl.coords.x, pl.coords.y, pl.size.width,
                            textHeight), NoRef)
    ELSE doc

drawDescription(f, c, doc) ==
  IF Defined(c.description)
    THEN LET pl == Val(c.descriptionPlacement)
             img == Val(c.imgPlacement)
             y == IF c.orientation = "portrait"
                    THEN RAdd(RAdd(img.coords.y, img.size.height),
                              f["elementMargin"])
                    ELSE pl.coords.y
             textHeight ==
               calcTotalLineHeight(setTextStyle(f, "description"),
                                   Num(Len(Val(c.description))))
         IN  draw(doc, "description",
                  Placement(pl.coords.x, y, pl.size.width, textHeight), NoRef)
    ELSE doc

\* a first page whose logo is drawn before the title
drawFirstPageLogoFirst(f, c, doc) ==
  LET d1 == drawLogo(c, doc)
      d2 == drawTitle(c, d1)
      d3 == drawImage(c, d2)
      d4 == drawCopyright(c, d3)
      d5 == drawContact(f, c, d4)
      d6 == drawMapInfo(f, c, d5)
  IN  drawDescription(f, c, d6)

drawFirstPage(f, c, doc) ==
  LET d1 == drawTitle(c, doc)
      d2 == drawImage(c, d1)
      d3 == drawCopyright(c, d2)
      d4 == drawLogo(c, d3)
      d5 == drawContact(f, c, d4)
      d6 == drawMapInfo(f, c, d5)
  IN  drawDescription(f, c, d6)

(***************************************************************************)
(* pdfLegendHelper: the legend paginator.                                  *)
(*                                                                         *)
(* A legend item is [type, natW, natH, decode, rows, colNr]: an image item *)
(* has its natural size in px and the outcome of createImage ("ok",        *)
(* "undefined" when the SVG conversion fails, "reject" when decode()       *)
(* rejects); a style item has its rows (the row types, in order) and its   *)
(* optional colNr.                                                         *)
(***************************************************************************)
\* getTextDimensions(title).h of the one-line title at font size 12 (jsPDF:
\* the height of one line is the font size)
legendTitleFontSize == 12

legendTitleHeight == R(legendTitleFontSize, JSPDF_PPI)

\* Math.ceil(a / b), Math.floor(a / b) for an integer a and b > 0
Ceil(a, b) == -((-a) \div b)

Floor(a, b) == a \div b

\* renderStyleLegend: the graphic part of a row, and the margin
itemSize == [width |-> R(2, 5), height |-> R(1, 5)]

rowMargin == R(1, 10)

\* natural size in px of the raster of an icon or regular-shape row
iconImage == [naturalWidth |-> 32, naturalHeight |-> 32]

\* _addLegendPage: a page is added and the layer title drawn on it.
addLegendPage(f, doc, g) ==
  LET d == addPage(doc)
  IN  [d EXCEPT !.ops =
         Append(@, Op(d, "legendTitle", f["pageMargins"][2], f["pageMargins"][1],
                      Zero, legendTitleHeight, <<g, 0, 0>>))]

\* a legendConfig that never uses columns
legendConfigOneColumn(f, legend, legendEntry, titleHeight) ==
  [size |-> SizeOf(legend.config.format, legend.config.orientation),
   useColumns |-> FALSE,
   origin |-> [x |-> f["pageMargins"][4],
               y |-> RAdd(RAdd(f["pageMargins"][1], titleHeight),
                          f["elementMargin"])]]

\* create: the legendConfig of a group
legendConfig(f, legend, legendEntry, titleHeight) ==
  [size |-> SizeOf(legend.config.format, legend.config.orientation),
   useColumns |-> legend.config.orientation = "landscape"
                  /\ Len(legendEntry.legends) > 1,
   origin |-> [x |-> f["pageMargins"][4],
               y |-> RAdd(RAdd(f["pageMargins"][1], titleHeight),
                          f["elementMargin"])]]

\* addLayerLegend: dimensions of a column
legendDimensions(f, config) ==
  [height |-> RSub(RSub(config.size.height, config.origin.y), f["pageMargins"][3]),
   width |-> IF config.useColumns
               THEN RSub(RSub(RHalf(config.size.width), f["pageMargins"][2]),
                         f["pageMargins"][4])
               ELSE RSub(RSub(config.size.width, f["pageMargins"][2]),
                         f["pageMargins"][4])]

noStyleRun == [cols |-> 0, initialPos |-> [x |-> Zero, y |-> Zero],
               x |-> Zero, y |-> Zero, idx |-> 0, width |-> Zero]

\* The locals of one addLayerLegend call (and of the renderStyleLegend call
\* inside it), at its start.
startCursor(f, config, g) ==
  [g |-> g, k |-> 1, j |-> 0, config |-> config,
   dimensions |-> legendDimensions(f, config),
   lsSide |-> "left",
   currentPos |-> config.origin,
   currentSize |-> legendDimensions(f, config),
   run |-> noStyleRun,
   breaks |-> 0]

noCursor ==
  [g |-> 0, k |-> 0, j |-> 0,
   config |-> [size |-> [width |-> Zero, height |-> Zero], useColumns |-> FALSE,
               origin |-> [x |-> Zero, y |-> Zero]],
   dimensions |-> [height |-> Zero, width |-> Zero],
   lsSide |-> "left",
   currentPos |-> [x |-> Zero, y |-> Zero],
   currentSize |-> [height |-> Zero, width |-> Zero],
   run |-> noStyleRun,
   breaks |-> 0]

\* The pair of things the paginator changes: its cursor and the document.
LegendState(cur, doc) == [cur |-> cur, doc |-> doc]

\* the vertical line between the two columns of a page
drawSeparatingLine(doc, config, totalHeight) ==
  draw(doc, "separatingLine",
       Placement(RHalf(config.size.width), config.origin.y, Zero, totalHeight),
       NoRef)

initSizeAndPosition(st) ==
  LegendState([st.cur EXCEPT !.currentPos = st.cur.config.origin],
              IF st.cur.config.useColumns
                THEN drawSeparatingLine(st.doc, st.cur.config,
                                        st.cur.dimensions.height)
                ELSE st.doc)

updateSizeAndPosition(f, cur, elementHeight) ==
  [cur EXCEPT
     !.currentSize.height = RSub(@, RAdd(elementHeight, f["elementMargin"])),
     !.currentPos.y = RAdd(@, RAdd(elementHeight, f["elementMargin"]))]

\* a break that leaves the remaining size as it is
nextPageKeepSize(f, st) ==
  LET cur == st.cur
      side == IF cur.lsSide = "left" THEN "right" ELSE "left"
      kept == [cur EXCEPT !.lsSide = side, !.breaks = @ + 1]
  IN  IF cur.config.useColumns /\ side = "right"
        THEN LegendState(
               [kept EXCEPT
                  !.currentPos =
                    [x |-> RAdd(cur.config.origin.x,
                                RHalf(cur.config.size.width)),
                     y |-> cur.config.origin.y]],
               st.doc)
        ELSE initSizeAndPosition(
               LegendState(kept, addLegendPage(f, st.doc, cur.g)))

\* a break that adds a page every time
nextPageAlwaysAdds(f, st) ==
  initSizeAndPosition(
    LegendState([st.cur EXCEPT
                   !.currentSize = st.cur.dimensions,
                   !.lsSide = IF @ = "left" THEN "right" ELSE "left",
                   !.breaks = @ + 1],
                addLegendPage(f, st.doc, st.cur.g)))

nextPage(f, st) ==
  LET cur == st.cur
      side == IF cur.lsSide = "left" THEN "right" ELSE "left"
      reset == [cur EXCEPT !.currentSize = cur.dimensions, !.lsSide = side,
                           !.breaks = @ + 1]
  IN  IF cur.config.useColumns /\ side = "right"
        THEN LegendState(
               [reset EXCEPT
                  !.currentPos =
                    [x |-> RAdd(cur.config.origin.x,
                                RHalf(cur.config.size.width)),
                     y |-> cur.config.origin.y]],
               st.doc)
        ELSE initSizeAndPosition(
               LegendState(reset, addLegendPage(f, st.doc, cur.g)))

\* an image always drawn at its natural size
sizeAndPrintImageNatural(img, placement, centerY) ==
  Placement(placement.coords.x, placement.coords.y,
            R(img.naturalWidth, JSPDF_PPI), R(img.naturalHeight, JSPDF_PPI))

\* an image stretched over the whole placement
sizeAndPrintImageStretched(img, placement, centerY) ==
  Placement(placement.coords.x, placement.coords.y,
            placement.size.width, placement.size.height)

\* sizeAndPrintImage: the rectangle the image is drawn into.
sizeAndPrintImage(img, placement, centerY) ==
  LET imgNatHeight == R(img.naturalHeight, JSPDF_PPI)
      imgNatWidth == R(img.naturalWidth, JSPDF_PPI)
      imageRatio == R(img.naturalHeight, img.naturalWidth)
      maxH == placement.size.height
      maxW == placement.size.width
      dimensionsRatio == RDiv(maxH, maxW)
      byWidth == RLe(imageRatio, dimensionsRatio) /\ RLe(maxW, imgNatWidth)
      byHeight == ~byWidth /\ RLe(maxH, imgNatHeight)
      height == IF byWidth THEN RMul(imgNatHeight, RDiv(maxW, imgNatWidth))
                ELSE IF byHeight THEN maxH ELSE imgNatHeight
      width == IF byWidth THEN maxW
               ELSE IF byHeight THEN RMul(imgNatWidth, RDiv(maxH, imgNatHeight))
               ELSE imgNatWidth
      x == RAdd(placement.coords.x, RHalf(RSub(maxW, width)))
      y == IF centerY THEN RAdd(placement.coords.y, RHalf(RSub(maxH, height)))
           ELSE placement.coords.y
  IN  Placement(x, y, width, height)

(***************************************************************************)
(* The calls in progress on an instance: where its setup call stands       *)
(* ("idle", "fonts" while the fonts are awaited, "done", "rejected"), the  *)
(* options it was given, and where its create call stands ("idle",         *)
(* "group", "item", "place", "rows" inside the legend pass, "done" once    *)
(* the blob is returned, "error" once it has thrown).                      *)
(***************************************************************************)
Creators == {1, 2}

\* createPdf of the PDF window, the call that makes the instance: where it
\* stands ("idle", "logo" while getLogo is awaited, "ready" with the setup
\* options put together, "finished", or "aborted" when a step outside the
\* promise chain has thrown), its running flag, what was asked for,
\* the options it calls setup with, whether getLogo threw, and the number of
\* notifications it has added; and the getCopyright call of the window:
\* the attribution entries it read and the string it returned
noPrint == [pc |-> "idle", running |-> FALSE, request |-> Undefined,
            opts |-> Undefined, logoFailed |-> FALSE, notifications |-> 0,
            attribution |-> Undefined]

noCall == [setup |-> "idle", opts |-> Undefined, create |-> "idle",
           creates |-> 0, cur |-> noCursor, print |-> noPrint]

\* the legend groups create iterates: those with at least one item
legendItems(legend) == SelectSeq(legend.items, LAMBDA e : Len(e.legends) > 0)

TypeOK ==
  /\ DOMAIN pageStyles = {"default", "A5"}
  /\ DOMAIN pdfCreator = Creators
  /\ \A i \in Creators :
       /\ call[i].setup \in {"idle", "fonts", "done", "rejected"}
       /\ call[i].create \in {"idle", "group", "item", "place", "rows",
                              "done", "error"}
       /\ pdfDoc[i].current \in 1..pdfDoc[i].pages

InitState ==
  /\ pageStyles = initialPageStyles
  /\ pdfCreator = [i \in Creators |-> newPDFCreator(initialPageStyles)]
  /\ pdfDoc = [i \in Creators |-> newJsPDF]
  /\ call = [i \in Creators |-> noCall]

(***************************************************************************)
(* setup                                                                   *)
(***************************************************************************)
\* setup up to the first await: style merge, page size, a new document; the
\* placements too when no fonts are to be loaded.
SetupBegin(i, o) ==
  /\ call[i].setup = "idle"
  /\ call[i].create \in {"idle", "done", "error"}
  /\ LET styles == setupFormat(pageStyles, o)
         f == formatting(styles)
         c == setupPage(f, pdfCreator[i], o)
         newDoc == o.format # defaultOptions.formatDefault
                   \/ o.orientation # defaultOptions.orientationDefault
     IN  /\ pageStyles' = styles
         /\ pdfDoc' = IF newDoc /\ o.format \in Formats
                        THEN [pdfDoc EXCEPT ![i] = newJsPDF] ELSE pdfDoc
         /\ IF o.format \notin Formats
              \* pageSizes[format] is undefined: reading its [0] throws
              THEN /\ pdfCreator' = pdfCreator
                   /\ call' = [call EXCEPT ![i].setup = "rejected",
                                           ![i].opts = Some(o)]
            ELSE IF o.fonts = "none"
              THEN /\ pdfCreator' =
                        [pdfCreator EXCEPT ![i] = setupPlacements(f, c, o)]
                   /\ call' = [call EXCEPT ![i].setup = "done",
                                           ![i].opts = Some(o)]
              ELSE /\ pdfCreator' = [pdfCreator EXCEPT ![i] = c]
                   /\ call' = [call EXCEPT ![i].setup = "fonts",
                                           ![i].opts = Some(o)]

\* a setup call with any of the given options
Setup(i, options) ==
  /\ call[i].setup = "idle"
  /\ \E o \in options : SetupBegin(i, o)

\* _addFonts resolved: the rest of setup runs to its end.
SetupFontsLoaded(i) ==
  /\ call[i].setup = "fonts"
  /\ Val(call[i].opts).fonts = "ok"
  /\ pdfCreator' =
       [pdfCreator EXCEPT ![i] =
          setupPlacements(formatting(pageStyles),
                          [pdfCreator[i] EXCEPT !.font = "RobotoSlab"],
                          Val(call[i].opts))]
  /\ call' = [call EXCEPT ![i].setup = "done"]
  /\ UNCHANGED <<pageStyles, pdfDoc>>

\* _addFonts rejected (fetch failed): setup rejects where it stands.
SetupFontsFailed(i) ==
  /\ call[i].setup = "fonts"
  /\ Val(call[i].opts).fonts = "fail"
  /\ call' = [call EXCEPT ![i].setup = "rejected"]
  /\ UNCHANGED <<pageStyles, pdfCreator, pdfDoc>>

(***************************************************************************)
(* create                                                                  *)
(***************************************************************************)
\* a bound on the create calls made on one instance
MaxCreates == 1

\* create up to its first await: the initialized check, the first page, and
\* the returned blob when there is no legend.
CreateCall(i, maxCalls) ==
  /\ call[i].create \in {"idle", "done", "error"}
  /\ call[i].creates < maxCalls
  /\ IF ~pdfCreator[i].initialized
       THEN /\ call' = [call EXCEPT ![i].create = "error", ![i].creates = @ + 1]
            /\ UNCHANGED pdfDoc
       ELSE /\ pdfDoc' =
                 [pdfDoc EXCEPT ![i] =
                    drawFirstPage(formatting(pageStyles), pdfCreator[i], @)]
            /\ call' =
                 [call EXCEPT
                    ![i].create = IF Defined(pdfCreator[i].legend) THEN "group"
                                  ELSE "done",
                    ![i].creates = @ + 1,
                    ![i].cur = [noCursor EXCEPT !.g = 1]]
  /\ UNCHANGED <<pageStyles, pdfCreator>>

\* a create call, one of at most MaxCreates on the instance
Create(i) == CreateCall(i, MaxCreates)

\* the head of the loop over the legend groups: the next group's page and the
\* start of its addLayerLegend call, or the blob after the last group
LegendGroup(i) ==
  /\ call[i].create = "group"
  /\ LET f == formatting(pageStyles)
         legend == Val(pdfCreator[i].legend)
         items == legendItems(legend)
         g == call[i].cur.g
     IN  IF g > Len(items)
           THEN /\ call' = [call EXCEPT ![i].create = "done"]
                /\ UNCHANGED pdfDoc
           ELSE LET config == legendConfig(f, legend, items[g],
                                           legendTitleHeight)
                    st == initSizeAndPosition(
                            LegendState(startCursor(f, config, g),
                                        addLegendPage(f, pdfDoc[i], g)))
                IN  /\ pdfDoc' = [pdfDoc EXCEPT ![i] = st.doc]
                    /\ call' = [call EXCEPT ![i].create = "item",
                                            ![i].cur = st.cur]
  /\ UNCHANGED <<pageStyles, pdfCreator>>

\* the items of the group the legend pass of instance i is in
currentLegends(i) ==
  legendItems(Val(pdfCreator[i].legend))[call[i].cur.g].legends

\* addLayerLegend: the head of the loop over the items, with its check of
\* the remaining height
LegendItem(i) ==
  /\ call[i].create = "item"
  /\ LET f == formatting(pageStyles)
         cur == call[i].cur
         st == LegendState(cur, pdfDoc[i])
     IN  IF cur.k > Len(currentLegends(i))
           THEN /\ call' = [call EXCEPT ![i].create = "group",
                                        ![i].cur.g = @ + 1]
                /\ UNCHANGED pdfDoc
           ELSE LET st2 == IF RLe(cur.currentSize.height, Zero)
                             THEN nextPage(f, st) ELSE st
                IN  /\ call' = [call EXCEPT ![i].create = "place",
                                            ![i].cur = st2.cur]
                    /\ pdfDoc' = [pdfDoc EXCEPT ![i] = st2.doc]
  /\ UNCHANGED <<pageStyles, pdfCreator>>

\* addLayerLegend, an image item: createImage, the 80 % rule, the image
\* drawn, the cursor moved on
LegendImage(i) ==
  /\ call[i].create = "place"
  /\ LET f == formatting(pageStyles)
         cur == call[i].cur
         item == currentLegends(i)[cur.k]
         st == LegendState(cur, pdfDoc[i])
         st2 == IF RLt(cur.currentSize.height,
                       RMul(R(item.natH, JSPDF_PPI), R(4, 5)))
                   /\ RLt(RDiv(cur.dimensions.height, Num(3)),
                          RSub(cur.currentPos.y, cur.config.origin.y))
                  THEN nextPage(f, st) ELSE st
         pl == sizeAndPrintImage(
                 [naturalWidth |-> item.natW, naturalHeight |-> item.natH],
                 [size |-> st2.cur.currentSize, coords |-> st2.cur.currentPos],
                 FALSE)
     IN  /\ item.type = "ImageLegendItem"
         /\ CASE item.decode = "ok" ->
                   /\ pdfDoc' = [pdfDoc EXCEPT ![i] =
                                   draw(st2.doc, "legendImage", pl,
                                        <<cur.g, cur.k, 0>>)]
                   /\ call' = [call EXCEPT
                                 ![i].create = "item",
                                 ![i].cur =
                                   [updateSizeAndPosition(f, st2.cur,
                                                          pl.size.height)
                                      EXCEPT !.k = @ + 1]]
              [] item.decode = "undefined" ->
                   /\ pdfDoc' = pdfDoc
                   /\ call' = [call EXCEPT
                                 ![i].create = "item",
                                 ![i].cur =
                                   [updateSizeAndPosition(f, cur, Zero)
                                      EXCEPT !.k = @ + 1]]
              [] OTHER ->
                   /\ pdfDoc' = pdfDoc
                   /\ call' = [call EXCEPT ![i].create = "error"]
  /\ UNCHANGED <<pageStyles, pdfCreator>>

\* addLayerLegend, an item that is neither a style nor an image item: throws
LegendUnsupported(i) ==
  /\ call[i].create = "place"
  /\ currentLegends(i)[call[i].cur.k].type \notin
       {"ImageLegendItem", "StyleLegendItem"}
  /\ call' = [call EXCEPT ![i].create = "error"]
  /\ UNCHANGED <<pageStyles, pdfCreator, pdfDoc>>

\* renderStyleLegend, up to its loop over the rows
LegendStyle(i) ==
  /\ call[i].create = "place"
  /\ LET cur == call[i].cur
         item == currentLegends(i)[cur.k]
         cols == IF Defined(item.colNr) THEN Val(item.colNr) ELSE 2
     IN  /\ item.type = "StyleLegendItem"
         /\ call' =
              [call EXCEPT
                 ![i].create = "rows",
                 ![i].cur.j = 1,
                 ![i].cur.run =
                   [cols |-> cols,
                    initialPos |-> cur.currentPos,
                    x |-> cur.currentPos.x,
                    y |-> cur.currentPos.y,
                    idx |-> -1,
                    width |-> RDiv(RSub(cur.currentSize.width,
                                        RMul(Num(cols - 1), rowMargin)),
                                   Num(cols))]]
  /\ UNCHANGED <<pageStyles, pdfCreator, pdfDoc>>

\* the row types renderStyleLegend draws a graphic for
swatchTypes == {"stroke", "fill", "circle", "icon", "shape"}

\* the rectangle the graphic part of a row is drawn into
swatch(type, x, y) ==
  IF type \in {"icon", "shape"}
    THEN sizeAndPrintImage(iconImage,
                           [coords |-> [x |-> x, y |-> y], size |-> itemSize],
                           TRUE)
    ELSE Placement(x, y, itemSize.width, itemSize.height)

\* renderStyleLegend, one pass of the loop over the rows
LegendStyleRow(i) ==
  /\ call[i].create = "rows"
  /\ call[i].cur.j <= Len(currentLegends(i)[call[i].cur.k].rows)
  /\ LET f == formatting(pageStyles)
         cur == call[i].cur
         run == cur.run
         type == currentLegends(i)[cur.k].rows[cur.j]
         idx == run.idx + 1
         x == IF idx % run.cols # 0
                THEN RAdd(run.x, RMul(Num(idx % run.cols), run.width))
                ELSE run.initialPos.x
         y == RAdd(run.initialPos.y,
                   RMul(Num(Floor(idx, run.cols)),
                        RAdd(itemSize.height, rowMargin)))
         break == RLe(RSub(cur.currentSize.height, itemSize.height),
                      RSub(y, cur.config.origin.y))
         st == IF break THEN nextPage(f, LegendState(cur, pdfDoc[i]))
               ELSE LegendState(cur, pdfDoc[i])
         x2 == IF break THEN st.cur.currentPos.x ELSE x
         y2 == IF break THEN st.cur.currentPos.y ELSE y
         run2 == [run EXCEPT
                    !.idx = IF break THEN 0 ELSE idx,
                    !.x = x2, !.y = y2,
                    !.initialPos.x = IF break THEN st.cur.currentPos.x ELSE @]
         ref == <<cur.g, cur.k, cur.j>>
         drawn == IF type \in swatchTypes
                    THEN draw(st.doc, "swatch", swatch(type, x2, y2), ref)
                    ELSE st.doc
         titled == draw(drawn, "rowTitle",
                        Placement(RAdd(RAdd(x2, itemSize.width), rowMargin), y2,
                                  RSub(RSub(run.width, rowMargin), itemSize.width),
                                  itemSize.height),
                        ref)
     IN  /\ pdfDoc' = [pdfDoc EXCEPT ![i] = titled]
         /\ call' = [call EXCEPT ![i].cur = [st.cur EXCEPT !.run = run2,
                                                          !.j = @ + 1]]
  /\ UNCHANGED <<pageStyles, pdfCreator>>

\* renderStyleLegend returns its height; the cursor is moved on
LegendStyleEnd(i) ==
  /\ call[i].create = "rows"
  /\ call[i].cur.j > Len(currentLegends(i)[call[i].cur.k].rows)
  /\ LET f == formatting(pageStyles)
         cur == call[i].cur
         height == RMul(Num(Ceil(cur.run.idx, cur.run.cols)),
                        RAdd(itemSize.height, rowMargin))
     IN  call' = [call EXCEPT
                    ![i].create = "item",
                    ![i].cur = [updateSizeAndPosition(f, cur, height)
                                  EXCEPT !.k = @ + 1, !.j = 0,
                                         !.run = noStyleRun]]
  /\ UNCHANGED <<pageStyles, pdfCreator, pdfDoc>>

(***************************************************************************)
(* The inputs.  A text is given as the lines jsPDF's splitTextToSize wraps *)
(* it into at the width it is wrapped at: the sequence 1..n of its lines.  *)
(***************************************************************************)
Lines(n) == [l \in 1..n |-> l]

\* bounds on the wrapped line counts of the title and the description
MaxTitleLines == 3

MaxDescriptionLines == 16

TitleInputs == {Undefined} \cup {Some(Lines(n)) : n \in 1..MaxTitleLines}

DescriptionInputs ==
  {Undefined} \cup {Some(Lines(n)) : n \in {1, 8, MaxDescriptionLines}}

\* a square logo, and a banner twelve times as wide as high
LogoInputs == {Undefined, Some(<<120, 120>>), Some(<<1440, 120>>)}

PresentInputs == {Undefined, Some("present")}

RatioInputs == {R(1, 2), R(3, 2), R(4, 1)}

CopyrightInputs ==
  {Undefined, Some([lines |-> 1, portion |-> R(1, 2)]),
   Some([lines |-> 2, portion |-> Num(1)])}

\* the option objects with the given values of format, orientation, title,
\* logo, image ratio, description, contact, map info, copyright, legend, fonts
Options(fs, os, ts, ls, rs, ds, cs, ms, cps, lgs, fts) ==
  [format : fs, orientation : os, title : ts, logo : ls, imgRatio : rs,
   description : ds, contact : cs, mapInfo : ms, copyright : cps, legend : lgs,
   fonts : fts]

Orientations == {"portrait", "landscape"}

\* the documents the layout is checked on: every subset of the elements, as
\* the PDF window calls setup (fonts always given and loading)
LayoutOptions ==
  Options({"A5", "A4", "A3"}, Orientations, TitleInputs, LogoInputs,
          RatioInputs, DescriptionInputs, PresentInputs, PresentInputs,
          CopyrightInputs, {Undefined}, {"ok"})

Next ==
  \/ Setup(1, LayoutOptions)
  \/ SetupFontsLoaded(1)
  \/ Create(1)

Spec == InitState /\ [][Next]_vars

(***************************************************************************)
(* Rectangles.                                                             *)
(***************************************************************************)
Right(pl) == RAdd(pl.coords.x, pl.size.width)

Bottom(pl) == RAdd(pl.coords.y, pl.size.height)

\* two placements share an area
Overlap(a, b) ==
  /\ RLt(a.coords.x, Right(b)) /\ RLt(b.coords.x, Right(a))
  /\ RLt(a.coords.y, Bottom(b)) /\ RLt(b.coords.y, Bottom(a))

\* a lies inside b
\* the placements setup has computed on an instance, by element
placements(c) ==
  [e \in {"title", "logo", "contact", "mapInfo", "description", "image",
          "copyright"} |->
     CASE e = "title" -> c.titlePlacement
       [] e = "logo" -> c.logoPlacement
       [] e = "contact" -> c.contactPlacement
       [] e = "mapInfo" -> c.mapInfoPlacement
       [] e = "description" -> c.descriptionPlacement
       [] e = "image" -> c.imgPlacement
       [] e = "copyright" -> c.copyrightPlacement]

Disjoint(c, a, b) ==
  Defined(placements(c)[a]) /\ Defined(placements(c)[b])
    => ~Overlap(Val(placements(c)[a]), Val(placements(c)[b]))

Elements == {"title", "logo", "contact", "mapInfo", "description", "image",
             "copyright"}

titleFreeWidth(f, c) ==
  RSub(c.maxLineWidth, Val(c.titlePlacement).size.width)

documentedLowerBorder(f, c) ==
  IF Defined(c.description) \/ Defined(c.contact) \/ Defined(c.mapInfo)
    THEN imageLowerBorder(f, c)
    ELSE RSub(c.pdfSize.height, f["pageMargins"][3])

\* C2 as stated: after setup the image lies inside the band between the
\* header elements and the footer elements (the bottom page margin line when
\* no description, contact or map-info is present), hence inside the page's
\* printable area.
C2_ImageInsideBand ==
  \A i \in Creators :
    LET c == pdfCreator[i]
        f == formatting(pageStyles)
        img == Val(c.imgPlacement)
    IN  c.initialized =>
          /\ RLe(imageUpperBorder(f, c), img.coords.y)
          /\ RLe(Bottom(img), documentedLowerBorder(f, c))
          /\ RLe(f["pageMargins"][4], img.coords.x)
          /\ RLe(Right(img), RSub(c.pdfSize.width, f["pageMargins"][2]))
          /\ RLe(f["pageMargins"][1], img.coords.y)
          /\ RLe(Bottom(img), RSub(c.pdfSize.height, f["pageMargins"][3]))

\* the height of the band _calcImagePlacement works with
bandHeight(f, c) == RSub(imageLowerBorder(f, c), imageUpperBorder(f, c))

\* C3: whenever the band has width w > 0 and height h > 0, the image
\* placement has width / height = r, width <= w, height <= h, and
\* width = w or height = h.
C3_AspectFit ==
  \A i \in Creators :
    LET c == pdfCreator[i]
        f == formatting(pageStyles)
        img == Val(c.imgPlacement)
        r == Val(call[i].opts).imgRatio
        w == c.maxLineWidth
        h == bandHeight(f, c)
    IN  c.initialized /\ RLt(Zero, w) /\ RLt(Zero, h) =>
          /\ RLt(Zero, img.size.height)
          /\ RDiv(img.size.width, img.size.height) = r
          /\ RLe(img.size.width, w)
          /\ RLe(img.size.height, h)
          /\ img.size.width = w \/ img.size.height = h

\* a band with room, in which the height binds and the width was shrunk
C3_Witness ==
  LET c == pdfCreator[1]
      f == formatting(pageStyles)
  IN  /\ c.initialized
      /\ RLt(Zero, bandHeight(f, c))
      /\ Val(c.imgPlacement).size.height = bandHeight(f, c)
      /\ RLt(Val(c.imgPlacement).size.width, c.maxLineWidth)

(***************************************************************************)
(* Two instances, as two print requests of one session make them, set up   *)
(* for any format (one of them unknown to the page size table), with fonts *)
(* not given, loading, or failing to load.                                 *)
(***************************************************************************)
StyleOptions ==
  Options(Formats \cup {"Letter"}, Orientations, {Some(Lines(1))}, {Undefined},
          {R(3, 2)}, {Some(Lines(8))}, {Undefined}, {Undefined}, {Undefined},
          {Undefined}, {"none", "ok", "fail"})

NextStyle ==
  \/ \E i \in Creators : Setup(i, StyleOptions)
  \/ \E i \in Creators : SetupFontsLoaded(i)
  \/ \E i \in Creators : SetupFontsFailed(i)
  \/ \E i \in Creators : Create(i)

SpecStyle == InitState /\ [][NextStyle]_vars

\* C4: as long as no setup call of an instance has run to completion the
\* instance is not initialized, create on it has only ever thrown, and nothing
\* was drawn on its document; the instance is initialized only with every
\* placement of the given elements computed.
C4_CreateNeedsSetup ==
  \A i \in Creators :
    LET c == pdfCreator[i]
    IN  /\ call[i].setup # "done" =>
             /\ ~c.initialized
             /\ pdfDoc[i].ops = <<>>
             /\ call[i].create = IF call[i].creates > 0 THEN "error" ELSE "idle"
        /\ c.initialized =>
             LET o == Val(call[i].opts)
             IN  /\ call[i].setup = "done"
                 /\ Defined(c.imgPlacement)
                 /\ Defined(o.title) => Defined(c.titlePlacement)
                 /\ Defined(o.logo) => Defined(c.logoPlacement)
                 /\ Defined(o.contact) => Defined(c.contactPlacement)
                 /\ Defined(o.mapInfo) => Defined(c.mapInfoPlacement)
                 /\ Defined(o.description) => Defined(c.descriptionPlacement)
                 /\ Defined(o.copyright) => Defined(c.copyrightPlacement)

\* create was called on an instance whose setup was rejected while the fonts
\* were loading, and threw
C4_Witness ==
  /\ call[1].setup = "rejected"
  /\ Val(call[1].opts).fonts = "fail"
  /\ call[1].create = "error"
  /\ pdfDoc[1].ops = <<>>

\* the instance setup(o) leaves behind when the default sheet is untouched
defaultLayout(o) ==
  LET c == setupPage(defaultStyle, newPDFCreator(initialPageStyles), o)
  IN  setupPlacements(defaultStyle,
                      [c EXCEPT !.font = IF o.fonts = "ok" THEN "RobotoSlab"
                                         ELSE @],
                      o)

\* C5 as stated: after any sequence of setup calls the static style tables
\* hold their original values, and a document of format A4 is laid out with
\* the default values.
C5_StyleTablesUntouched ==
  /\ pageStyles = initialPageStyles
  /\ \A i \in Creators :
       call[i].setup = "done" /\ Val(call[i].opts).format = "A4"
         => pdfCreator[i] = defaultLayout(Val(call[i].opts))

\* the style sheet documented for a format: the default sheet with the
\* format's overrides, when it has any, on top
documentedStyle(format) ==
  ObjectAssign(defaultStyle, StyleOf(initialPageStyles, format))

\* C6 as stated: a setup call resolves, for format A5, the default sheet with
\* the A5 overrides on top, and for any other format the default sheet
\* unchanged.
C6_ResolvedStyle ==
  [][\A i \in Creators :
       call[i].setup = "idle" /\ call'[i].setup # "idle"
         => formatting(pageStyles') = documentedStyle(Val(call'[i].opts).format)]_vars

(***************************************************************************)
(* The legend pass: one instance, set up for a document with a legend,     *)
(* whose create call is followed step by step through the groups, the      *)
(* items and the rows.                                                     *)
(***************************************************************************)
\* bounds on the items of a group and on the rows of a style item
MaxItems == 3

MaxRows == 9

\* a legend item of type image: the natural size in px of its image and how
\* createImage ends on it ("ok", "undefined" for a failed SVG conversion,
\* "rejected" for a rejected decode)
imageItem(w, h, decode) ==
  [type |-> "ImageLegendItem", natW |-> w, natH |-> h, decode |-> decode,
   rows |-> <<>>, colNr |-> Undefined]

\* a legend item of type style: the types of its rows and its colNr
styleItem(rows, colNr) ==
  [type |-> "StyleLegendItem", natW |-> 0, natH |-> 0, decode |-> "ok",
   rows |-> rows, colNr |-> colNr]

\* StyleRowType
StyleRowTypes == <<"stroke", "fill", "circle", "icon", "shape", "text">>

rowsOf(n) == [j \in 1..n |-> StyleRowTypes[((j - 1) % Len(StyleRowTypes)) + 1]]

\* a 3 in square image, an image ten times as high as wide, an SVG that does
\* not convert, a style item of three rows in two grid columns and one of
\* MaxRows rows in one
ItemInputs ==
  {imageItem(216, 216, "ok"), imageItem(144, 1440, "ok"),
   imageItem(144, 144, "undefined"), styleItem(rowsOf(3), Undefined),
   styleItem(rowsOf(MaxRows), Some(1))}

\* an image whose decode is rejected, an item of type iframe, and a style
\* item with a row of a type that is no StyleRowType
FaultyItems ==
  {imageItem(144, 144, "rejected"),
   [type |-> "IframeLegendItem", natW |-> 0, natH |-> 0, decode |-> "ok",
    rows |-> <<>>, colNr |-> Undefined],
   styleItem(<<"fill", "polygon">>, Undefined)}

Groups(n) == UNION {[1..m -> ItemInputs] : m \in 0..n}

LegendEntry(legends) == [legends |-> legends]

\* a group of five equal square images, of 2 in and of 1.25 in
FiveImages ==
  {[k \in 1..5 |-> imageItem(px, px, "ok")] : px \in {144, 90}}

\* legends of one group of up to MaxItems items, of two groups of at most one
\* item (empty groups among them), of one group ending in a faulty item, of
\* one group of five images, of one group of an image of 10 in x 2 in, wider
\* than any column, and one of 2 in x 20 in, higher than any column, and of
\* one group of a style item of four rows in three grid columns
LegendInputs ==
  {<<LegendEntry(g)>> : g \in Groups(MaxItems)}
    \cup {<<LegendEntry(g[1]), LegendEntry(g[2])>> : g \in Groups(1) \X Groups(1)}
    \cup {<<LegendEntry(Append(g[1], g[2]))>> : g \in Groups(1) \X FaultyItems}
    \cup {<<LegendEntry(g)>> : g \in FiveImages}
    \cup {<<LegendEntry(<<imageItem(720, 144, "ok"),
                         imageItem(144, 1440, "ok")>>)>>}
    \cup {<<LegendEntry(<<styleItem(rowsOf(4), Some(3))>>)>>}

Legends ==
  {Some([config |-> [format |-> "A5", orientation |-> o], items |-> l]) :
     o \in Orientations, l \in LegendInputs}

LegendOptions ==
  Options({"A4"}, {"portrait"}, {Undefined}, {Undefined}, {R(3, 2)},
          {Undefined}, {Undefined}, {Undefined}, {Undefined}, Legends, {"ok"})

NextLegend ==
  \/ Setup(1, LegendOptions)
  \/ SetupFontsLoaded(1)
  \/ Create(1)
  \/ LegendGroup(1)
  \/ LegendItem(1)
  \/ LegendImage(1)
  \/ LegendUnsupported(1)
  \/ LegendStyle(1)
  \/ LegendStyleRow(1)
  \/ LegendStyleEnd(1)

SpecLegend == InitState /\ [][NextLegend]_vars

\* the <<group, item, row>> of what an item has to show: its image, or each of
\* its rows
itemRefs(g, k, item) ==
  IF item.type = "StyleLegendItem"
    THEN [j \in 1..Len(item.rows) |-> <<g, k, j>>]
    ELSE << <<g, k, 0>> >>

RECURSIVE groupRefs(_, _, _)
groupRefs(g, legends, k) ==
  IF k > Len(legends) THEN <<>>
  ELSE itemRefs(g, k, legends[k]) \o groupRefs(g, legends, k + 1)

RECURSIVE legendRefs(_, _)
legendRefs(items, g) ==
  IF g > Len(items) THEN <<>>
  ELSE groupRefs(g, items[g].legends, 1) \o legendRefs(items, g + 1)

\* what the document shows of the legend, in drawing order: an item's image,
\* a row's title
drawnRefs(doc) ==
  LET shown == SelectSeq(doc.ops,
                         LAMBDA op : op.op \in {"legendImage", "rowTitle"})
  IN  [n \in 1..Len(shown) |-> shown[n].ref]

supportedKinds(legend) ==
  \A g \in 1..Len(legend.items) :
    \A k \in 1..Len(legend.items[g].legends) :
      LET item == legend.items[g].legends[k]
      IN  /\ item.type \in {"ImageLegendItem", "StyleLegendItem"}
          /\ \A j \in 1..Len(item.rows) :
               \E t \in 1..Len(StyleRowTypes) : item.rows[j] = StyleRowTypes[t]

\* C7 as stated: the legend pass of a legend of supported kinds ends with the
\* blob returned, every item's image and every row drawn exactly once in the
\* order supplied, and at least one page added per non-empty group.
C7_LegendComplete ==
  \A i \in Creators :
    LET c == pdfCreator[i]
        legend == Val(c.legend)
    IN  /\ Defined(c.legend)
        /\ pdfDoc[i].ops # <<>>
        /\ call[i].create \in {"done", "error"}
        /\ supportedKinds(legend)
        => /\ call[i].create = "done"
           /\ drawnRefs(pdfDoc[i]) = legendRefs(legendItems(legend), 1)
           /\ pdfDoc[i].pages >= 1 + Len(legendItems(legend))

\* the y of the bottom of the columns of the legend pages
columnBottom(f, legend) ==
  RSub(SizeOf(legend.config.format, legend.config.orientation).height,
       f["pageMargins"][3])

\* C8: no legend image, row graphic or row title is drawn with its bottom
\* edge below the bottom of its column (page height minus bottom margin).
C8_WithinColumn ==
  \A i \in Creators :
    \A n \in 1..Len(pdfDoc[i].ops) :
      LET op == pdfDoc[i].ops[n]
      IN  op.op \in {"legendImage", "swatch", "rowTitle"} =>
            RLe(RAdd(op.y, op.height),
                columnBottom(formatting(pageStyles), Val(pdfCreator[1].legend)))

\* an image scaled down to end exactly at the bottom of a right column
C8_Witness ==
  \E n \in 1..Len(pdfDoc[1].ops) :
    LET op == pdfDoc[1].ops[n]
    IN  /\ op.op = "legendImage"
        /\ call[1].cur.lsSide = "right"
        /\ call[1].cur.config.useColumns
        /\ RAdd(op.y, op.height) =
             columnBottom(formatting(pageStyles), Val(pdfCreator[1].legend))

\* C9: whenever an item starts being placed the remaining height is
\* strictly positive, and when it was <= 0 at the head of the loop a break
\* has reset it to the full column height.
C9_RemainingPositive ==
  /\ [](\A i \in Creators :
          call[i].create = "place" => RLt(Zero, call[i].cur.currentSize.height))
  /\ [][\A i \in Creators :
          /\ call[i].create = "item"
          /\ call'[i].create = "place"
          /\ RLe(call[i].cur.currentSize.height, Zero)
          => /\ call'[i].cur.breaks = call[i].cur.breaks + 1
             /\ call'[i].cur.currentSize = call[i].cur.dimensions]_vars

\* the third item of a group is placed after a break at the head of the loop
C9_Witness ==
  /\ call[1].create = "place"
  /\ call[1].cur.k = 3
  /\ call[1].cur.breaks >= 1
  /\ call[1].cur.currentSize = call[1].cur.dimensions

\* C10: in two-column mode a break from the left column moves to the right
\* half of the same page and adds no page, a break from the right column adds
\* one page and returns to its left half; outside two-column mode every break
\* adds exactly one page; inside a group a page is added by a break only.
C10_BreaksAlternate ==
  [][\A i \in Creators :
       LET cur == call[i].cur
           new == call'[i].cur
           origin == cur.config.origin
           rightX == RAdd(origin.x, RHalf(cur.config.size.width))
       IN  /\ new.breaks = cur.breaks + 1 =>
                /\ IF cur.config.useColumns /\ cur.lsSide = "left"
                     THEN /\ new.lsSide = "right"
                          /\ pdfDoc'[i].pages = pdfDoc[i].pages
                          /\ pdfDoc'[i].current = pdfDoc[i].current
                          /\ new.currentPos.x = rightX
                     ELSE /\ new.lsSide = "left" \/ ~cur.config.useColumns
                          /\ pdfDoc'[i].pages = pdfDoc[i].pages + 1
                          /\ pdfDoc'[i].current = pdfDoc'[i].pages
                          /\ new.currentPos.x = origin.x
                /\ call'[i].create # "item" => new.currentPos.y = origin.y
           /\ call[i].create \in {"item", "place", "rows"}
              /\ pdfDoc'[i].pages # pdfDoc[i].pages
                => new.breaks = cur.breaks + 1]_vars

\* a group in two-column mode that went left, right, and left on a new page
C10_Witness ==
  /\ call[1].cur.config.useColumns
  /\ call[1].cur.breaks >= 2
  /\ call[1].cur.lsSide = "left"

(***************************************************************************)
(* The draw phase: one instance set up for a document of any subset of the *)
(* first-page elements, without or with a legend, and create called on it  *)
(* up to MaxDraws times.                                                   *)
(***************************************************************************)
\* a bound on the create calls followed through the draw phase
MaxDraws == 2

\* a legend of three groups, the second without items
DrawLegendInputs ==
  {<<LegendEntry(<<imageItem(216, 216, "ok"), styleItem(rowsOf(3), Undefined)>>),
     LegendEntry(<<>>),
     LegendEntry(<<imageItem(144, 1440, "ok")>>)>>}

DrawLegends ==
  {Undefined} \cup
  {Some([config |-> [format |-> "A5", orientation |-> o], items |-> l]) :
     o \in Orientations, l \in DrawLegendInputs}

DrawOptions ==
  Options({"A4"}, Orientations, {Undefined, Some(Lines(1))},
          {Undefined, Some(<<120, 120>>)}, {R(3, 2)},
          {Undefined, Some(Lines(8))}, PresentInputs, PresentInputs,
          {Undefined, Some([lines |-> 1, portion |-> R(1, 2)])}, DrawLegends,
          {"ok"})

NextDraw ==
  \/ Setup(1, DrawOptions)
  \/ SetupFontsLoaded(1)
  \/ CreateCall(1, MaxDraws)
  \/ LegendGroup(1)
  \/ LegendItem(1)
  \/ LegendImage(1)
  \/ LegendStyle(1)
  \/ LegendStyleRow(1)
  \/ LegendStyleEnd(1)

SpecDraw == InitState /\ [][NextDraw]_vars

\* what a create call has to draw on the first page, in the documented order
firstPageOrder(c) ==
  (IF Defined(c.title) THEN <<"title">> ELSE <<>>)
    \o <<"image">>
    \o (IF Defined(c.copyright) THEN <<"copyrightRect", "copyrightText">>
        ELSE <<>>)
    \o (IF Defined(c.logo) THEN <<"logo">> ELSE <<>>)
    \o (IF Defined(c.contact) THEN <<"contactText", "contactHeader">> ELSE <<>>)
    \o (IF Defined(c.mapInfo) THEN <<"mapInfoText", "mapInfoHeader">> ELSE <<>>)
    \o (IF Defined(c.description) THEN <<"description">> ELSE <<>>)

\* the drawing operations of the legend pages
legendOps ==
  {"legendTitle", "separatingLine", "legendImage", "swatch", "rowTitle"}

\* the operations drawn since the document had `before` operations
addedOps(before, doc) ==
  [n \in 1..(Len(doc.ops) - before) |-> doc.ops[before + n].op]

\* C11: a create call draws title, image, copyright rectangle, copyright
\* text, logo, contact, map-info, description in this order, each present
\* element once, before any page is added; the steps of the legend pass draw
\* legend content only; the blob is returned only after the last group.
C11_DrawOrder ==
  [][\A i \in Creators :
       LET c == pdfCreator[i]
           before == Len(pdfDoc[i].ops)
       IN  /\ call'[i].creates = call[i].creates + 1 /\ c.initialized =>
                /\ SubSeq(pdfDoc'[i].ops, 1, before) = pdfDoc[i].ops
                /\ addedOps(before, pdfDoc'[i]) = firstPageOrder(c)
                /\ pdfDoc'[i].pages = pdfDoc[i].pages
           /\ call[i].create \in {"group", "item", "place", "rows"} =>
                /\ SubSeq(pdfDoc'[i].ops, 1, before) = pdfDoc[i].ops
                /\ \A n \in 1..(Len(pdfDoc'[i].ops) - before) :
                     addedOps(before, pdfDoc'[i])[n] \in legendOps
           /\ call'[i].create = "done" /\ call[i].create # "done" =>
                \/ ~Defined(c.legend)
                \/ /\ call[i].create = "group"
                   /\ call[i].cur.g > Len(legendItems(Val(c.legend)))]_vars

\* a document with every element and a legend, drawn to its end
C11_Witness ==
  LET c == pdfCreator[1]
  IN  /\ call[1].create = "done"
      /\ call[1].creates = 1
      /\ \A e \in Elements : Defined(placements(c)[e])
      /\ Defined(c.legend)
      /\ pdfDoc[1].pages = 3

\* the number of create calls that have drawn the image before operation n
callOf(doc, n) ==
  Cardinality({m \in 1..n : doc.ops[m].op = "image"})

\* the legend pages the k-th drawing create call has added
legendPagesOfCall(doc, k) ==
  Cardinality({n \in 1..Len(doc.ops) :
                 doc.ops[n].op = "legendTitle" /\ callOf(doc, n) = k})

\* the rectangle of a drawing operation
rectOf(op) == Placement(op.x, op.y, op.width, op.height)

\* C12 as stated: every create call after a completed setup draws the
\* first-page elements on the first page, the title, image and logo at the
\* placements setup computed, and adds as many legend pages as the first
\* call did.
C12_Repeatable ==
  \A i \in Creators :
    LET c == pdfCreator[i]
        doc == pdfDoc[i]
    IN  /\ \A n \in 1..Len(doc.ops) :
             LET op == doc.ops[n]
             IN  /\ op.op \notin legendOps => op.page = 1
                 /\ op.op = "title" => rectOf(op) = Val(c.titlePlacement)
                 /\ op.op = "image" => rectOf(op) = Val(c.imgPlacement)
                 /\ op.op = "logo" => rectOf(op) = Val(c.logoPlacement)
        /\ call[i].create = "done" =>
             \A k \in 1..callOf(doc, Len(doc.ops)) :
               legendPagesOfCall(doc, k) = legendPagesOfCall(doc, 1)

\* the item types addLayerLegend handles and the row types of StyleRowType
recognizedItem(item) == item.type \in {"ImageLegendItem", "StyleLegendItem"}

recognizedRow(type) == \E t \in 1..Len(StyleRowTypes) : type = StyleRowTypes[t]

\* C13 as stated: nothing is drawn for an item or a row of an unrecognized
\* kind, and a legend pass over a legend holding one does not end with the
\* blob returned.
C13_UnknownKindsThrow ==
  \A i \in Creators :
    LET legend == Val(pdfCreator[i].legend)
        groups == legendItems(legend)
    IN  Defined(pdfCreator[i].legend) =>
          /\ \A n \in 1..Len(pdfDoc[i].ops) :
               LET ref == pdfDoc[i].ops[n].ref
                   item == groups[ref[1]].legends[ref[2]]
               IN  ref # NoRef /\ ref[2] > 0 =>
                     /\ recognizedItem(item)
                     /\ ref[3] > 0 => recognizedRow(item.rows[ref[3]])
          /\ call[i].create = "done" /\ pdfDoc[i].ops # <<>>
               => supportedKinds(legend)

\* C14 as stated: placing an image item whose image cannot be decoded does
\* not end the pass in an error, draws nothing, leaves the cursor's position
\* and remaining size as they are, and moves on to the next item.
C14_DecodeFailureContained ==
  [][\A i \in Creators :
       /\ call[i].create = "place"
       /\ currentLegends(i)[call[i].cur.k].type = "ImageLegendItem"
       /\ currentLegends(i)[call[i].cur.k].decode # "ok"
       /\ call'[i] # call[i]
       => /\ call'[i].create = "item"
          /\ call'[i].cur.k = call[i].cur.k + 1
          /\ pdfDoc'[i] = pdfDoc[i]
          /\ call'[i].cur.currentPos = call[i].cur.currentPos
          /\ call'[i].cur.currentSize = call[i].cur.currentSize]_vars

(***************************************************************************)
(* createPdf of the PDF window: the logo is fetched, the legend entries    *)
(* are parsed, a new PDFCreator is set up and create is called on it once. *)
(* A request is what the window's state and the plugin config ask for:     *)
(* [format, orientation, title, description, imgRatio, printLogo, logo     *)
(* (what getLogo ends in: an image, or Undefined for a failure), contact,  *)
(* mapInfo, copyright, entries (the legend entries of the map, Undefined   *)
(* when the legend is not to be printed)].                                 *)
(***************************************************************************)
\* the items of a legend entry that are kept: image and style items
printable(legends) ==
  SelectSeq(legends,
            LAMBDA l : l.type = "ImageLegendItem" \/ l.type = "StyleLegendItem")

\* the items notifyIframeNotSupported is called for
notified(legends) ==
  SelectSeq(legends,
            LAMBDA l : ~(l.type = "ImageLegendItem" \/ l.type = "StyleLegendItem"))

\* parseLegend without the groups left empty
parseLegendKeepEmpty(entries) ==
  [g \in 1..Len(entries) |-> LegendEntry(printable(entries[g].legends))]

\* parseLegend: the printable legend items
parseLegend(entries) ==
  SelectSeq([g \in 1..Len(entries) |-> LegendEntry(printable(entries[g].legends))],
            LAMBDA item : Len(item.legends) > 0)

RECURSIVE Sum(_, _)
Sum(seq, n) == IF n = 0 THEN 0 ELSE seq[n] + Sum(seq, n - 1)

\* the notifications parseLegend adds
iframeNotifications(entries) ==
  Sum([g \in 1..Len(entries) |-> Len(notified(entries[g].legends))], Len(entries))

\* the legend option createPdf hands to setup
printLegendOption(request) ==
  IF Defined(request.entries) /\ Len(parseLegend(Val(request.entries))) > 0
    THEN Some([config |-> [format |-> request.format,
                           orientation |-> request.orientation],
               items |-> parseLegend(Val(request.entries))])
    ELSE Undefined

\* createPdf from the logo on, up to the setup call: the options
preparePrint(print, logo) ==
  LET request == Val(print.request)
  IN  [print EXCEPT
         !.pc = "ready",
         !.notifications =
           IF Defined(request.entries)
             THEN @ + iframeNotifications(Val(request.entries)) ELSE @,
         !.opts =
           Some([format |-> request.format, orientation |-> request.orientation,
                 title |-> request.title, logo |-> logo,
                 imgRatio |-> request.imgRatio,
                 description |-> request.description, contact |-> request.contact,
                 mapInfo |-> request.mapInfo, copyright |-> request.copyright,
                 legend |-> printLegendOption(request), fonts |-> "ok"])]

PrintBegin(i, requests) ==
  /\ call[i].print.pc = "idle"
  /\ \E request \in requests :
       LET started == [call[i].print EXCEPT !.running = TRUE,
                                            !.request = Some(request)]
       IN  call' = [call EXCEPT ![i].print =
                      IF request.printLogo THEN [started EXCEPT !.pc = "logo"]
                      ELSE preparePrint(started, Undefined)]
  /\ UNCHANGED <<pageStyles, pdfCreator, pdfDoc>>

\* getLogo resolved
PrintLogoLoaded(i) ==
  /\ call[i].print.pc = "logo"
  /\ Defined(Val(call[i].print.request).logo)
  /\ call' = [call EXCEPT ![i].print =
                preparePrint(@, Val(call[i].print.request).logo)]
  /\ UNCHANGED <<pageStyles, pdfCreator, pdfDoc>>

\* a getLogo failure that leaves createPdf (the catch left out)
PrintLogoFailedAborts(i) ==
  /\ call[i].print.pc = "logo"
  /\ ~Defined(Val(call[i].print.request).logo)
  /\ call' = [call EXCEPT ![i].print.pc = "finished",
                          ![i].print.running = FALSE,
                          ![i].print.logoFailed = TRUE]
  /\ UNCHANGED <<pageStyles, pdfCreator, pdfDoc>>

\* getLogo threw: caught and logged, the logo stays undefined
PrintLogoFailed(i) ==
  /\ call[i].print.pc = "logo"
  /\ ~Defined(Val(call[i].print.request).logo)
  /\ call' = [call EXCEPT ![i].print =
                preparePrint([@ EXCEPT !.logoFailed = TRUE], Undefined)]
  /\ UNCHANGED <<pageStyles, pdfCreator, pdfDoc>>

\* new PDFCreator().setup(...)
PrintSetup(i) ==
  /\ call[i].print.pc = "ready"
  /\ call[i].setup = "idle"
  /\ SetupBegin(i, Val(call[i].print.opts))

\* .then: createAndHandleBlob calls create, once
PrintCreate(i) ==
  /\ call[i].print.pc = "ready"
  /\ call[i].setup = "done"
  /\ call[i].creates = 0
  /\ CreateCall(i, 1)

\* .catch and .finally: setup or create has settled
PrintEnd(i) ==
  /\ call[i].print.pc = "ready"
  /\ \/ call[i].setup = "rejected"
     \/ call[i].create \in {"done", "error"} /\ call[i].creates > 0
  /\ call' = [call EXCEPT
                ![i].print.pc = "finished",
                ![i].print.running = FALSE,
                ![i].print.notifications =
                  IF call[i].create = "done" THEN @ ELSE @ + 1]
  /\ UNCHANGED <<pageStyles, pdfCreator, pdfDoc>>

\* an item of type iframe
iframeItem ==
  [type |-> "IframeLegendItem", natW |-> 0, natH |-> 0, decode |-> "ok",
   rows |-> <<>>, colNr |-> Undefined]

\* legend entries with iframe items among the items, alone in a group, and
\* with a group without items
PrintEntries ==
  {<<LegendEntry(<<imageItem(216, 216, "ok"), iframeItem,
                   styleItem(rowsOf(3), Undefined)>>)>>,
   <<LegendEntry(<<iframeItem>>), LegendEntry(<<imageItem(216, 216, "ok")>>)>>,
   <<LegendEntry(<<iframeItem, iframeItem>>)>>,
   <<LegendEntry(<<>>),
     LegendEntry(<<styleItem(rowsOf(3), Undefined), iframeItem,
                   imageItem(144, 1440, "ok")>>)>>}

PrintRequests ==
  {r \in [format : {"A4"}, orientation : Orientations,
          title : {Undefined, Some(Lines(1))},
          description : {Undefined, Some(Lines(8))}, imgRatio : {R(3, 2)},
          printLogo : BOOLEAN, logo : {Undefined, Some(<<120, 120>>)},
          contact : PresentInputs, mapInfo : PresentInputs,
          copyright : {Undefined, Some([lines |-> 1, portion |-> R(1, 2)])},
          entries : {Undefined} \cup {Some(e) : e \in PrintEntries}] :
     r.printLogo \/ ~Defined(r.logo)}

NextPrint ==
  \/ PrintBegin(1, PrintRequests)
  \/ PrintLogoLoaded(1)
  \/ PrintLogoFailed(1)
  \/ PrintSetup(1)
  \/ SetupFontsLoaded(1)
  \/ PrintCreate(1)
  \/ LegendGroup(1)
  \/ LegendItem(1)
  \/ LegendImage(1)
  \/ LegendStyle(1)
  \/ LegendStyleRow(1)
  \/ LegendStyleEnd(1)
  \/ PrintEnd(1)

SpecPrint == InitState /\ [][NextPrint]_vars

\* the kinds of the drawing operations of a document
drawnKinds(doc) == {doc.ops[n].op : n \in 1..Len(doc.ops)}

\* C15: when getLogo has failed, createPdf goes on: setup is called with the
\* requested elements and no logo, neither setup nor create fails, createPdf
\* ends only with the document created, every requested element is placed
\* and drawn, and no logo is placed or drawn.
C15_LogoFailureContained ==
  \A i \in Creators :
    LET pr == call[i].print
        rq == Val(pr.request)
        o == Val(pr.opts)
        c == pdfCreator[i]
        kinds == drawnKinds(pdfDoc[i])
    IN  pr.logoFailed =>
          /\ pr.pc = "finished" => call[i].create = "done"
          /\ pr.pc \in {"ready", "finished"}
          /\ call[i].setup # "rejected" /\ call[i].create # "error"
          /\ ~Defined(o.logo)
          /\ o.title = rq.title /\ o.description = rq.description
          /\ o.contact = rq.contact /\ o.mapInfo = rq.mapInfo
          /\ o.copyright = rq.copyright
          /\ c.initialized =>
               /\ ~Defined(c.logoPlacement)
               /\ Defined(c.imgPlacement)
               /\ Defined(c.titlePlacement) = Defined(rq.title)
               /\ Defined(c.descriptionPlacement) = Defined(rq.description)
               /\ Defined(c.contactPlacement) = Defined(rq.contact)
               /\ Defined(c.mapInfoPlacement) = Defined(rq.mapInfo)
               /\ Defined(c.copyrightPlacement) = Defined(rq.copyright)
          /\ call[i].creates > 0 =>
               /\ "logo" \notin kinds
               /\ "image" \in kinds
               /\ ("title" \in kinds) = Defined(rq.title)
               /\ ("description" \in kinds) = Defined(rq.description)
               /\ ("contactText" \in kinds) = Defined(rq.contact)
               /\ ("mapInfoText" \in kinds) = Defined(rq.mapInfo)
               /\ ("copyrightText" \in kinds) = Defined(rq.copyright)

\* getLogo failed and the document, with every other element, was created
C15_Witness ==
  LET pr == call[1].print
  IN  /\ pr.logoFailed
      /\ pr.pc = "finished"
      /\ call[1].create = "done"
      /\ {"title", "image", "copyrightText", "contactText", "mapInfoText",
          "description"} \subseteq drawnKinds(pdfDoc[1])

\* whether an item of the map's legend entries is an image or a style item
isPrintable(l) == l.type \in {"ImageLegendItem", "StyleLegendItem"}

\* the n-th smallest of the positions kept
nthKept(positions, n) ==
  CHOOSE p \in positions : Cardinality({q \in positions : q <= p}) = n

hasPrintable(entry) == \E k \in 1..Len(entry.legends) : isPrintable(entry.legends[k])

\* C16: the legend createPdf hands over holds, in the supplied order, the
\* groups that have an image or style item, each with its image and style
\* items in the supplied order and nothing else; there is no legend when no
\* group is left; each iframe item has caused one notification and no
\* failure; create adds legend pages for exactly the groups handed over.
C16_ParseLegend ==
  \A i \in Creators :
    LET pr == call[i].print
        entries == Val(Val(pr.request).entries)
        legend == Val(pr.opts).legend
        groups == IF Defined(legend) THEN Val(legend).items ELSE <<>>
        iframes == UNION {{<<g, k>> : k \in {h \in 1..Len(entries[g].legends) :
                                               ~isPrintable(entries[g].legends[h])}} :
                          g \in 1..Len(entries)}
        titled == {pdfDoc[i].ops[n].ref[1] :
                     n \in {m \in 1..Len(pdfDoc[i].ops) :
                              pdfDoc[i].ops[m].op = "legendTitle"}}
    IN  pr.pc \in {"ready", "finished"} /\ Defined(Val(pr.request).entries) =>
          /\ Len(groups) =
               Cardinality({g \in 1..Len(entries) : hasPrintable(entries[g])})
          /\ \A n \in 1..Len(groups) :
               LET from == entries[nthKept({g \in 1..Len(entries) :
                                               hasPrintable(entries[g])},
                                             n)].legends
                   kept == groups[n].legends
               IN  /\ Len(kept) > 0
                   /\ Len(kept) =
                        Cardinality({k \in 1..Len(from) : isPrintable(from[k])})
                   /\ \A k \in 1..Len(kept) :
                        kept[k] =
                          from[nthKept({q \in 1..Len(from) :
                                          isPrintable(from[q])}, k)]
          /\ pr.notifications = Cardinality(iframes)
          /\ call[i].setup # "rejected" /\ call[i].create # "error"
          /\ titled \subseteq 1..Len(groups)
          /\ call[i].create = "done" => titled = 1..Len(groups)

\* entries whose first group held only an iframe item: one notification, one
\* group left, one legend page
C16_Witness ==
  LET pr == call[1].print
  IN  /\ pr.pc = "finished"
      /\ Defined(Val(pr.request).entries)
      /\ Len(Val(Val(pr.request).entries)) = 2
      /\ pr.notifications = 1
      /\ Len(Val(Val(pr.opts).legend).items) = 1
      /\ pdfDoc[1].pages = 2

\* the bottom of the title band: top margin plus the line height of
\* maxLineCount lines of the title style
titleBandBottom(f, c) ==
  RAdd(f["pageMargins"][1],
       calcTotalLineHeight(setTextStyle(f, "title"),
                           f["title.maxLineCount." \o c.orientation]))

\* C17: the title placement ends at top margin + line height of maxLineCount
\* lines whatever the number of title lines, the image starts elementMargin
\* below it, and the title starts at or below the top margin.
C17_TitleBand ==
  \A i \in Creators :
    LET c == pdfCreator[i]
        f == formatting(pageStyles)
    IN  c.initialized /\ Defined(c.title) =>
          /\ Len(Val(c.title)) \in
               1..f["title.maxLineCount." \o c.orientation][1]
          /\ Bottom(Val(c.titlePlacement)) = titleBandBottom(f, c)
          /\ Val(c.imgPlacement).coords.y =
               RAdd(titleBandBottom(f, c), f["elementMargin"])
          /\ RLe(f["pageMargins"][1], Val(c.titlePlacement).coords.y)

\* a title of one line where two are allowed: it starts below the top margin
C17_Witness ==
  LET c == pdfCreator[1]
  IN  /\ c.initialized
      /\ Defined(c.title)
      /\ Len(Val(c.title)) = 1
      /\ c.orientation = "portrait"
      /\ RLt(formatting(pageStyles)["pageMargins"][1],
             Val(c.titlePlacement).coords.y)

\* C18: an image whose width was shrunk has equal distances to the left and
\* right page margin, and an image whose height was shrunk has equal distances
\* to the upper and lower border of its band.
C18_CenteredInFreeAxis ==
  \A i \in Creators :
    LET c == pdfCreator[i]
        f == formatting(pageStyles)
        img == Val(c.imgPlacement)
        upperBorder == imageUpperBorder(f, c)
        lowerBorder == imageLowerBorder(f, c)
    IN  c.initialized =>
          /\ RLt(img.size.width, c.maxLineWidth) =>
               RSub(img.coords.x, f["pageMargins"][4]) =
                 RSub(RSub(c.pdfSize.width, f["pageMargins"][2]),
                      RAdd(img.coords.x, img.size.width))
          /\ ( /\ RLt(Zero, img.size.height)
               /\ RLt(img.size.height, RSub(lowerBorder, upperBorder)) ) =>
               RSub(img.coords.y, upperBorder) =
                 RSub(lowerBorder, RAdd(img.coords.y, img.size.height))

\* stored is the first min(n, cap) of the n wrapped lines, in order, and
\* capping it again changes nothing
cappedLines(stored, wrapped, cap) ==
  /\ Len(stored) = (IF Len(wrapped) < cap THEN Len(wrapped) ELSE cap)
  /\ \A k \in 1..Len(stored) : stored[k] = wrapped[k]
  /\ slice(stored, cap) = stored

\* C19: after setup the stored title and description are the first
\* min(n, maxLineCount) of the n wrapped lines, in order, with the caps 2
\* (portrait) and 1 (landscape) for the title and 15 and 8 for the
\* description, and capping the stored lines again changes nothing.
C19_LineCap ==
  \A i \in Creators :
    LET c == pdfCreator[i]
        f == formatting(pageStyles)
        o == Val(call[i].opts)
        titleCap == IF c.orientation = "portrait" THEN 2 ELSE 1
        descriptionCap == IF c.orientation = "portrait" THEN 15 ELSE 8
    IN  c.initialized /\ Defined(call[i].opts) =>
          /\ f["title.maxLineCount." \o c.orientation] = Num(titleCap)
          /\ f["description.maxLineCount." \o c.orientation] =
               Num(descriptionCap)
          /\ Defined(c.title) = Defined(o.title)
          /\ Defined(c.description) = Defined(o.description)
          /\ Defined(o.title) =>
               cappedLines(Val(c.title), Val(o.title), titleCap)
          /\ Defined(o.description) =>
               cappedLines(Val(c.description), Val(o.description),
                           descriptionCap)

\* a title wrapped into more than two lines and a description wrapped into
\* more than fifteen, stored as two and fifteen lines in portrait
C19_Witness ==
  LET c == pdfCreator[1]
      o == Val(call[1].opts)
  IN  /\ c.initialized
      /\ Defined(call[1].opts)
      /\ c.orientation = "portrait"
      /\ Defined(o.title) /\ Len(Val(o.title)) > 2
      /\ Defined(o.description) /\ Len(Val(o.description)) > 15
      /\ Len(Val(c.title)) = 2
      /\ Len(Val(c.description)) = 15

\* portrait with title and description, without contact and map info, and an
\* aspect ratio at least the ratio of the band: the width is what binds
widthBinds(f, c, aspectRatio) ==
  /\ c.initialized
  /\ c.orientation = "portrait"
  /\ Defined(c.title) /\ Defined(c.description)
  /\ ~Defined(c.contact) /\ ~Defined(c.mapInfo)
  /\ RLt(Zero, RSub(imageLowerBorder(f, c), imageUpperBorder(f, c)))
  /\ RLe(RDiv(c.maxLineWidth,
              RSub(imageLowerBorder(f, c), imageUpperBorder(f, c))),
         aspectRatio)

\* C20: in portrait with title and description, no contact and no map info,
\* and the width binding, the image is as wide as the printable width and
\* width / ratio high, starts elementMargin below the title band, and the
\* description is drawn elementMargin below the image's bottom.
C20_PortraitWidthBound ==
  \A i \in Creators :
    LET c == pdfCreator[i]
        f == formatting(pageStyles)
        img == Val(c.imgPlacement)
        ops == pdfDoc[i].ops
        aspectRatio == Val(call[i].opts).imgRatio
    IN  Defined(call[i].opts) /\ widthBinds(f, c, aspectRatio) =>
          /\ img.size.width = c.maxLineWidth
          /\ img.size.width =
               RSub(RSub(c.pdfSize.width, f["pageMargins"][2]),
                    f["pageMargins"][4])
          /\ img.size.height = RDiv(img.size.width, aspectRatio)
          /\ img.coords.y = RAdd(titleBandBottom(f, c), f["elementMargin"])
          /\ \A k \in 1..Len(ops) :
               ops[k].op = "description" =>
                 ops[k].y = RAdd(Bottom(img), f["elementMargin"])

\* format A4 in portrait, ratio 1.5, title and description drawn, and free
\* space left between the drawn description and its reserved placement
C20_Witness ==
  LET c == pdfCreator[1]
      f == formatting(pageStyles)
      ops == pdfDoc[1].ops
  IN  /\ Defined(call[1].opts)
      /\ Val(call[1].opts).format = "A4"
      /\ Val(call[1].opts).imgRatio = R(3, 2)
      /\ widthBinds(f, c, R(3, 2))
      /\ call[1].create = "done"
      /\ \E k \in 1..Len(ops) :
           /\ ops[k].op = "description"
           /\ RLt(ops[k].y, Val(c.descriptionPlacement).coords.y)

\* a group of five equal images in two-column mode of which a column holds
\* two at their natural size and no third at 80 % of its natural height
fitsOnlyTwo(f, legend) ==
  LET legends == legend.items[1].legends
      config == legendConfig(f, legend, legend.items[1], legendTitleHeight)
      dimensions == legendDimensions(f, config)
      h == R(legends[1].natH, JSPDF_PPI)
      w == R(legends[1].natW, JSPDF_PPI)
      afterOne == RSub(dimensions.height, RAdd(h, f["elementMargin"]))
      afterTwo == RSub(afterOne, RAdd(h, f["elementMargin"]))
  IN  /\ Len(legend.items) = 1
      /\ Len(legends) = 5
      /\ \A k \in 1..5 : legends[k] = imageItem(legends[1].natW,
                                                legends[1].natH, "ok")
      /\ legend.config.orientation = "landscape"
      /\ RLe(w, RSub(RSub(RHalf(config.size.width), f["pageMargins"][2]),
                     f["pageMargins"][4]))
      /\ RLe(h, afterOne)
      /\ RLt(afterTwo, RMul(h, R(4, 5)))

\* the image of item k is drawn on page p, in the left or the right half
imageAt(doc, config, k, p, side) ==
  \A n \in 1..Len(doc.ops) :
    LET op == doc.ops[n]
    IN  op.op = "legendImage" /\ op.ref = <<1, k, 0>> =>
          /\ op.page = p
          /\ IF side = "left"
               THEN /\ RLe(config.origin.x, op.x)
                    /\ RLe(RAdd(op.x, op.width), RHalf(config.size.width))
               ELSE /\ RLe(RHalf(config.size.width), op.x)
                    /\ RLe(RAdd(op.x, op.width), config.size.width)

attributionOf(entry) ==
  IF entry.isArray /\ Len(entry.attributions) = 0
    THEN [provider |-> Undefined, year |-> Undefined]
    ELSE entry.attributions[1]

\* `@ ${provider} ${year}`, `@ ${provider}`, or ''
attributionText(entry) ==
  LET a == attributionOf(entry)
  IN  IF Defined(a.provider)
        THEN IF Defined(a.year)
               THEN <<"@", " ">> \o Val(a.provider) \o <<" ">> \o Val(a.year)
               ELSE <<"@", " ">> \o Val(a.provider)
        ELSE <<>>

\* [...new Set(strings)]: the distinct strings in insertion order
RECURSIVE setOf(_)
setOf(strings) ==
  IF strings = <<>> THEN <<>>
  ELSE LET front == setOf(SubSeq(strings, 1, Len(strings) - 1))
           last == strings[Len(strings)]
       IN  IF \E n \in 1..Len(front) : front[n] = last THEN front
           ELSE Append(front, last)

\* Array.prototype.join
RECURSIVE join(_, _)
join(strings, separator) ==
  IF strings = <<>> THEN <<>>
  ELSE IF Len(strings) = 1 THEN strings[1]
  ELSE strings[1] \o separator \o join(Tail(strings), separator)

\* getCopyright without the Set: every entry's string is joined
getCopyrightAll(entries) ==
  IF Defined(entries)
    THEN Some(join(SelectSeq([n \in 1..Len(Val(entries)) |->
                                attributionText(Val(entries)[n])],
                             LAMBDA t : t # <<>>),
                   <<" ", "|", " ">>))
    ELSE Undefined

\* getCopyright: filtered[filtered.length - 1] is one character (undefined
\* for the empty string), compared with the two characters '| '
getCopyright(entries) ==
  IF Defined(entries)
    THEN LET copyright ==
               SelectSeq([n \in 1..Len(Val(entries)) |->
                            attributionText(Val(entries)[n])],
                         LAMBDA t : t # <<>>)
             filtered == join(setOf(copyright), <<" ", "|", " ">>)
         IN  IF Len(filtered) > 0 /\ <<filtered[Len(filtered)]>> = <<"|", " ">>
               THEN Some(SubSeq(filtered, 1, Len(filtered) - 2))
               ELSE Some(filtered)
    ELSE Undefined

\* a bound on the number of attribution entries
MaxEntries == 3

\* attribution objects without provider, without year, with both
AttributionObjects ==
  [provider : {Undefined, Some(<<"a">>), Some(<<"b", "c">>)},
   year : {Undefined, Some(<<"1">>)}]

\* entries whose attributions is an object, an empty array, or an array of
\* two objects
AttributionEntries ==
  {[isArray |-> FALSE, attributions |-> <<a>>] : a \in AttributionObjects}
    \cup {[isArray |-> TRUE, attributions |-> <<>>]}
    \cup {[isArray |-> TRUE, attributions |-> <<a, b>>] :
            a \in {[provider |-> Some(<<"a">>), year |-> Some(<<"1">>)]},
            b \in {[provider |-> Some(<<"b", "c">>), year |-> Undefined]}}

AttributionInputs ==
  {Undefined} \cup
    {Some(e) : e \in UNION {[1..n -> AttributionEntries] : n \in 0..MaxEntries}}

\* the window calls getCopyright on the attribution entries of the app
GetCopyright(i, inputs) ==
  /\ ~Defined(call[i].print.attribution)
  /\ \E entries \in inputs :
       call' = [call EXCEPT ![i].print.attribution =
                  Some([entries |-> entries,
                        copyright |-> getCopyright(entries)])]
  /\ UNCHANGED <<pageStyles, pdfCreator, pdfDoc>>

NextCopyright == GetCopyright(1, AttributionInputs)

SpecCopyright == InitState /\ [][NextCopyright]_vars

\* the positions of the entries whose string is not empty and not the string
\* of an earlier entry
firstOccurrences(entries) ==
  {k \in 1..Len(entries) :
     /\ attributionText(entries[k]) # <<>>
     /\ \A q \in 1..(k - 1) :
          attributionText(entries[q]) # attributionText(entries[k])}

\* C22: getCopyright returns the distinct attribution strings, each once and
\* in the order of their first occurrence, joined by ' | ', with no leading
\* and no trailing separator; entries without a provider contribute nothing.
C22_Copyright ==
  \A i \in Creators :
    LET at == Val(call[i].print.attribution)
        entries == Val(at.entries)
        text == Val(at.copyright)
        first == firstOccurrences(entries)
        separator == <<" ", "|", " ">>
        separators == {p \in 1..(Len(text) - 2) : SubSeq(text, p, p + 2) = separator}
    IN  Defined(call[i].print.attribution) /\ Defined(at.entries) =>
          /\ Defined(at.copyright)
          /\ text = join([n \in 1..Cardinality(first) |->
                            attributionText(entries[nthKept(first, n)])],
                         separator)
          /\ Cardinality(separators) =
               (IF first = {} THEN 0 ELSE Cardinality(first) - 1)
          /\ 1 \notin separators
          /\ (Len(text) - 2) \notin separators
          /\ \A k \in 1..Len(entries) :
               ~Defined(attributionOf(entries[k]).provider) =>
                 attributionText(entries[k]) = <<>>

\* three entries, the third a repetition of the first, with an entry without
\* provider: two strings returned
C22_Witness ==
  LET at == Val(call[1].print.attribution)
      entries == Val(at.entries)
  IN  /\ Defined(call[1].print.attribution)
      /\ Defined(at.entries)
      /\ Len(entries) >= 3
      /\ attributionText(entries[1]) = attributionText(entries[3])
      /\ attributionText(entries[1]) # <<>>
      /\ attributionText(entries[2]) # attributionText(entries[1])
      /\ attributionText(entries[2]) # <<>>
      /\ Cardinality(firstOccurrences(entries)) = 2
      /\ Val(at.copyright) =
           attributionText(entries[1]) \o <<" ", "|", " ">>
             \o attributionText(entries[2])

\* C23: the placements of description, contact and map info overlap neither
\* each other nor the image; in landscape the description is the printable
\* width less one info width ratio per info block present wide and starts at
\* or right of the right edge of the info blocks, ending at the right margin;
\* in portrait it ends at the top of contact, else of map info, else at the
\* bottom margin line.
C23_Footer ==
  \A i \in Creators :
    LET c == pdfCreator[i]
        f == formatting(pageStyles)
        footer == {"description", "contact", "mapInfo"}
        description == Val(c.descriptionPlacement)
        ratio == f["info.widthPortion.landscape"]
        blocks == (IF Defined(c.contact) THEN 1 ELSE 0)
                    + (IF Defined(c.mapInfo) THEN 1 ELSE 0)
    IN  c.initialized =>
          /\ \A a \in footer :
               \A b \in (footer \cup {"image"}) \ {a} : Disjoint(c, a, b)
          /\ Defined(c.description) /\ c.orientation = "landscape" =>
               /\ description.size.width =
                    RMul(c.maxLineWidth, RSub(Num(1), RMul(Num(blocks), ratio)))
               /\ Right(description) =
                    RSub(c.pdfSize.width, f["pageMargins"][2])
               /\ \A b \in {"contact", "mapInfo"} :
                    Defined(placements(c)[b]) =>
                      RLe(Right(Val(placements(c)[b])), description.coords.x)
          /\ Defined(c.description) /\ c.orientation = "portrait" =>
               Bottom(description) =
                 (IF Defined(c.contact) THEN Val(c.contactPlacement).coords.y
                  ELSE IF Defined(c.mapInfo)
                    THEN Val(c.mapInfoPlacement).coords.y
                  ELSE RSub(c.pdfSize.height, f["pageMargins"][3]))

\* landscape with description, contact and map info: the description is
\* narrower than the printable width and right of the map info
C23_Witness ==
  LET c == pdfCreator[1]
  IN  /\ c.initialized
      /\ c.orientation = "landscape"
      /\ Defined(c.description) /\ Defined(c.contact) /\ Defined(c.mapInfo)
      /\ RLt(Val(c.descriptionPlacement).size.width, c.maxLineWidth)
      /\ RLt(Right(Val(c.mapInfoPlacement)),
             Val(c.descriptionPlacement).coords.x)

\* C24: a step that draws a legend image draws it with its natural aspect
\* ratio, at most as wide and as high as the available size and as its
\* natural size, centred in the available width, and the cursor moves on by
\* the drawn height plus elementMargin.
C24_SizeAndPrintImage ==
  [][\A i \in Creators :
       LET f == formatting(pageStyles)
           cur == call[i].cur
           new == call'[i].cur
           ops == pdfDoc'[i].ops
           op == ops[Len(ops)]
           item == currentLegends(i)[cur.k]
           available == IF new.breaks = cur.breaks THEN cur.currentSize
                        ELSE cur.dimensions
       IN  /\ call[i].create = "place"
           /\ Len(ops) = Len(pdfDoc[i].ops) + 1
           /\ op.op = "legendImage"
           => /\ RMul(op.width, Num(item.natH)) = RMul(op.height, Num(item.natW))
              /\ RLt(Zero, op.width)
              /\ RLe(op.width, available.width)
              /\ RLe(op.height, available.height)
              /\ RLe(op.width, R(item.natW, JSPDF_PPI))
              /\ RLe(op.height, R(item.natH, JSPDF_PPI))
              /\ RSub(op.x, new.currentPos.x) =
                   RSub(RAdd(new.currentPos.x, available.width),
                        RAdd(op.x, op.width))
              /\ new.currentPos.y =
                   RAdd(RAdd(op.y, op.height), f["elementMargin"])
              /\ new.currentSize.height =
                   RSub(available.height,
                        RAdd(op.height, f["elementMargin"]))]_vars

\* an image drawn smaller than its natural size, with free width beside it,
\* and an image drawn as wide as the column
C24_Witness ==
  \E n \in 1..Len(pdfDoc[1].ops) :
    LET op == pdfDoc[1].ops[n]
        item == legendItems(Val(pdfCreator[1].legend))[op.ref[1]].legends[op.ref[2]]
    IN  /\ op.op = "legendImage"
        /\ RLt(op.height, R(item.natH, JSPDF_PPI))
        /\ RLt(Zero, op.height)
        /\ RLt(call[1].cur.config.origin.x, op.x)
        /\ \E m \in 1..Len(pdfDoc[1].ops) :
             /\ pdfDoc[1].ops[m].op = "legendImage"
             /\ pdfDoc[1].ops[m].width = call[1].cur.dimensions.width

\* C25: a row that does not fit in the remaining height is drawn after a
\* break, at the top of the next column with row index 0, and every row after
\* the first continues the grid of the row before it: it is in the same grid
\* row when its index is no multiple of the column count, and one grid row
\* (row height 0.2 + row margin 0.1) lower when it is.
C25_RowsFromTop ==
  [][\A i \in Creators :
       LET cur == call[i].cur
           new == call'[i].cur
           remaining == RSub(RAdd(cur.config.origin.y, cur.currentSize.height),
                             RAdd(cur.run.initialPos.y,
                                  RMul(Num(Floor(cur.run.idx + 1, cur.run.cols)),
                                       RAdd(itemSize.height, rowMargin))))
       IN  call[i].create = "rows" /\ call'[i].create = "rows" /\ new.j = cur.j + 1
           => /\ RLt(remaining, itemSize.height) => new.breaks = cur.breaks + 1
              /\ new.breaks = cur.breaks + 1 =>
                   /\ new.run.idx = 0
                   /\ new.run.y = cur.config.origin.y
                   /\ new.run.x = new.currentPos.x
              /\ new.breaks = cur.breaks /\ cur.j > 1 =>
                   new.run.y =
                     (IF new.run.idx % new.run.cols = 0
                        THEN RAdd(cur.run.y, RAdd(itemSize.height, rowMargin))
                        ELSE cur.run.y)]_vars

\* C26: when a style item has been placed the remaining height is decremented
\* and the cursor's y advanced by ceil(n / cols) grid rows of 0.2 + 0.1 plus
\* elementMargin, n being the number of rows laid out since the last break.
C26_RenderedHeight ==
  [][\A i \in Creators :
       LET f == formatting(pageStyles)
           cur == call[i].cur
           new == call'[i].cur
           n == cur.run.idx + 1
           rendered == RMul(Num(Ceil(n, cur.run.cols)),
                            RAdd(itemSize.height, rowMargin))
       IN  call[i].create = "rows" /\ call'[i].create = "item"
           => /\ new.currentPos.y =
                   RAdd(cur.currentPos.y, RAdd(rendered, f["elementMargin"]))
              /\ new.currentSize.height =
                   RSub(cur.currentSize.height,
                        RAdd(rendered, f["elementMargin"]))]_vars

\* the half of the page an operation of group g is drawn in
columnOf(f, legend, op) ==
  LET config == legendConfig(f, legend, legendItems(legend)[op.ref[1]],
                             legendTitleHeight)
  IN  IF config.useColumns /\ RLe(RHalf(config.size.width), op.x)
        THEN "right" ELSE "left"

\* C27: in a legend column the content of an item starts at or below the
\* bottom edge of everything drawn for the items before it.
C27_NoVerticalOverlap ==
  \A i \in Creators :
    LET f == formatting(pageStyles)
        legend == Val(pdfCreator[i].legend)
        ops == pdfDoc[i].ops
        content == {n \in 1..Len(ops) :
                      ops[n].op \in {"legendImage", "swatch", "rowTitle"}}
    IN  \A a, b \in content :
          /\ ops[a].ref[1] = ops[b].ref[1]
          /\ ops[a].ref[2] < ops[b].ref[2]
          /\ ops[a].page = ops[b].page
          /\ columnOf(f, legend, ops[a]) = columnOf(f, legend, ops[b])
          => RLe(RAdd(ops[a].y, ops[a].height), ops[b].y)

\* C28: the k-th row since the last break of a style item of colNr grid
\* columns is drawn at the horizontal offset (k mod colNr) * cellWidth from
\* the column's left edge, cellWidth = (column width - (colNr - 1) * 0.1) /
\* colNr, so that every swatch starts inside the column's width.
C28_RowOffset ==
  [][\A i \in Creators :
       LET cur == call[i].cur
           new == call'[i].cur
           item == currentLegends(i)[cur.k]
           colNr == IF Defined(item.colNr) THEN Val(item.colNr) ELSE 2
           cellWidth == RDiv(RSub(new.dimensions.width,
                                  RMul(Num(colNr - 1), rowMargin)),
                             Num(colNr))
           left == new.currentPos.x
           k == new.run.idx
       IN  call[i].create = "rows" /\ call'[i].create = "rows" /\ new.j = cur.j + 1
           => /\ new.run.x = RAdd(left, RMul(Num(k % colNr), cellWidth))
              /\ RLe(left, new.run.x)
              /\ RLt(new.run.x, RAdd(left, new.dimensions.width))]_vars

\* C29: in landscape with contact or map info the text of the stored
\* description is at most as high as the description placement, and ends at or
\* above the bottom margin line.
C29_DescriptionFits ==
  \A i \in Creators :
    LET c == pdfCreator[i]
        f == formatting(pageStyles)
        textHeight == calcTotalLineHeight(setTextStyle(f, "description"),
                                          Num(Len(Val(c.description))))
        pl == Val(c.descriptionPlacement)
    IN  /\ c.initialized
        /\ c.orientation = "landscape"
        /\ Defined(c.description)
        /\ Defined(c.contact) \/ Defined(c.mapInfo)
        => /\ RLe(textHeight, pl.size.height)
           /\ RLe(RAdd(pl.coords.y, textHeight),
                  RSub(c.pdfSize.height, f["pageMargins"][3]))

(***************************************************************************)
(* createPdf with the steps that can throw before the setup promise chain: *)
(* getMapSize throws for a map that is no Cesium, panorama, OpenLayers or  *)
(* oblique map, and the awaited getMapInfo can reject.  Neither is inside  *)
(* a try block, so createPdf is left with the exception.                   *)
(***************************************************************************)
\* running.value = true; getMapSize(app.maps.activeMap) throws
PrintMapSizeFailed(i, requests) ==
  /\ call[i].print.pc = "idle"
  /\ \E request \in requests :
       call' = [call EXCEPT ![i].print.running = TRUE,
                            ![i].print.request = Some(request),
                            ![i].print.pc = "aborted"]
  /\ UNCHANGED <<pageStyles, pdfCreator, pdfDoc>>

\* await getMapInfo(app) rejects, after the logo has been fetched or failed
PrintMapInfoFailed(i) ==
  /\ call[i].print.pc = "logo"
  /\ Defined(Val(call[i].print.request).mapInfo)
  /\ call' = [call EXCEPT
                ![i].print.pc = "aborted",
                ![i].print.logoFailed =
                  ~Defined(Val(call[i].print.request).logo)]
  /\ UNCHANGED <<pageStyles, pdfCreator, pdfDoc>>

NextRun ==
  \/ PrintBegin(1, PrintRequests)
  \/ PrintMapSizeFailed(1, PrintRequests)
  \/ PrintLogoLoaded(1)
  \/ PrintLogoFailed(1)
  \/ PrintMapInfoFailed(1)
  \/ PrintSetup(1)
  \/ SetupFontsLoaded(1)
  \/ PrintCreate(1)
  \/ LegendGroup(1)
  \/ LegendItem(1)
  \/ LegendImage(1)
  \/ LegendStyle(1)
  \/ LegendStyleRow(1)
  \/ LegendStyleEnd(1)
  \/ PrintEnd(1)

SpecRun == InitState /\ [][NextRun]_vars

\* C30: a createPdf call that has set the running flag and has ended, with
\* the document created or with any of its steps failed, has set the flag
\* back to false.
C30_RunningReset ==
  \A i \in Creators :
    call[i].print.pc \in {"finished", "aborted"} => ~call[i].print.running

====
